---- MODULE Spec2Model ----
\* Real-time message fan-out and translation orchestration of BabelApp:
\* the socket.io 'send-message' listener (index.ts), the target-language
\* cache, TranslationService.translateMessage, BabelBotService.chat and the
\* persistence helpers of config/database.ts.
EXTENDS Integers, Sequences, FiniteSets, TLC

\* ------------------------------------------------------------------------
\* Bounds of the model
\* ------------------------------------------------------------------------

\* number of times the wall clock advances in one run
MaxTicks == 1

\* length of the texts language detection is applied to
MaxTextLen == 2

\* ------------------------------------------------------------------------
\* Strings.  A message text is a sequence of code points; a room key and a
\* user id are sequences of tokens, so that startsWith, split and template
\* strings are computed and not assumed.
\* ------------------------------------------------------------------------

\* the JavaScript value undefined, where a text is expected
Undefined == <<-1>>

\* U+0020, the only white space the model's texts contain
IsWhitespace(ch) == ch = 32

RECURSIVE TrimStart(_)
TrimStart(s) ==
  IF s = <<>> THEN <<>>
  ELSE IF IsWhitespace(Head(s)) THEN TrimStart(Tail(s)) ELSE s

RECURSIVE TrimEnd(_)
TrimEnd(s) ==
  IF s = <<>> THEN <<>>
  ELSE IF IsWhitespace(s[Len(s)]) THEN TrimEnd(SubSeq(s, 1, Len(s) - 1)) ELSE s

\* String.prototype.trim
Trim(s) == TrimEnd(TrimStart(s))

\* JavaScript truthiness of a string-or-undefined value
Truthy(s) == s # Undefined /\ s # <<>>

\* String.prototype.startsWith
StartsWith(s, prefix) ==
  Len(s) >= Len(prefix) /\ SubSeq(s, 1, Len(prefix)) = prefix

\* String.prototype.split(sep) for a one-token separator
RECURSIVE SplitFrom(_, _, _)
SplitFrom(s, sep, cur) ==
  IF s = <<>> THEN <<cur>>
  ELSE IF Head(s) = sep THEN <<cur>> \o SplitFrom(Tail(s), sep, <<>>)
  ELSE SplitFrom(Tail(s), sep, Append(cur, Head(s)))

Split(s, sep) == SplitFrom(s, sep, <<>>)

\* ------------------------------------------------------------------------
\* Language detection (index.ts, detectLanguageFromText)
\* ------------------------------------------------------------------------

InRange(text, lo, hi) == \E i \in 1..Len(text) : text[i] >= lo /\ text[i] <= hi

\* a detection that looks for Arabic before Hebrew
detectLanguageFromText_ArabicFirst(text) ==
  IF ~Truthy(text) \/ Len(Trim(text)) = 0 THEN "en"
  ELSE IF InRange(text, 1536, 1791) THEN "ar"
  ELSE IF InRange(text, 1424, 1535) THEN "he"
  ELSE IF InRange(text, 19968, 40959) THEN "zh"
  ELSE IF InRange(text, 1024, 1279) THEN "ru"
  ELSE "en"

detectLanguageFromText(text) ==
  IF ~Truthy(text) \/ Len(Trim(text)) = 0 THEN "en"
  ELSE IF InRange(text, 1424, 1535) THEN "he"
  ELSE IF InRange(text, 1536, 1791) THEN "ar"
  ELSE IF InRange(text, 19968, 40959) THEN "zh"
  ELSE IF InRange(text, 1024, 1279) THEN "ru"
  ELSE "en"

\* ------------------------------------------------------------------------
\* Target-language cache (index.ts)
\* ------------------------------------------------------------------------

LANGUAGE_CACHE_TTL == 5 * 60 * 1000

\* Date.now() when the server starts listening: an epoch time, far above the TTL
StartNow == 2 * LANGUAGE_CACHE_TTL

RECURSIVE Dedup(_)
\* Array.from(new Set(languages)): first occurrences, in order
Dedup(s) ==
  IF s = <<>> THEN <<>>
  ELSE LET r == Dedup(SubSeq(s, 1, Len(s) - 1))
           x == s[Len(s)]
       IN IF \E i \in 1..Len(r) : r[i] = x THEN r ELSE Append(r, x)

Includes(s, x) == \E i \in 1..Len(s) : s[i] = x

\* a refresh that does not force English into the set
UniqueLanguages_NoFallback(languages) == Dedup(languages)

\* the value assigned to cachedTargetLanguages by a successful refresh
UniqueLanguages(languages) ==
  LET u == Dedup(languages)
  IN IF ~Includes(u, "en") THEN Append(u, "en") ELSE u

\* the rows getActiveUsersLanguages() can return (SELECT DISTINCT language)
QueryResults == { <<>>, <<"en", "he">>, <<"he", "fr">> }

\* ------------------------------------------------------------------------
\* Translation provider adapter (services/translation.ts)
\* ------------------------------------------------------------------------

modelNamesToTry ==
  << "gemini-2.5-flash", "gemini-2.5-flash-latest", "gemini-2.0-flash",
     "gemini-2.0-flash-exp", "gemini-1.5-flash", "gemini-1.5-flash-latest",
     "gemini-1.5-pro", "gemini-1.0-pro-002", "gemini-1.0-pro" >>

AllLangs == << "en", "he", "fr", "ar", "zh", "ru" >>

\* what the model answers for (content, target language): some text that
\* depends on both, with the white space a model puts around its answer
GeminiText(content, targetLanguage) ==
  LET k == CHOOSE i \in 1..Len(AllLangs) : AllLangs[i] = targetLanguage
  IN <<32, 57344 + k>> \o content \o <<32>>

\* the loop over modelNamesToTry from index i on; firstOk is the index of the
\* first model whose generateContent call succeeds (0: every model fails)
RECURSIVE TryModels(_, _, _, _)
TryModels(i, firstOk, targetLanguage, originalContent) ==
  IF i > Len(modelNamesToTry) THEN originalContent
  ELSE IF i = firstOk THEN Trim(GeminiText(originalContent, targetLanguage))
  ELSE IF i = Len(modelNamesToTry) THEN originalContent
  ELSE TryModels(i + 1, firstOk, targetLanguage, originalContent)

\* a translateMessage that gives up with an empty text when every model fails
translateMessage_EmptyOnFailure(firstOk, targetLanguage, originalContent) ==
  IF firstOk = 0 THEN <<>>
  ELSE TryModels(1, firstOk, targetLanguage, originalContent)

\* TranslationService.translateMessage: it never throws
translateMessage(firstOk, targetLanguage, originalContent) ==
  TryModels(1, firstOk, targetLanguage, originalContent)

\* ------------------------------------------------------------------------
\* Connections and inbound payloads
\* ------------------------------------------------------------------------

Conns == { "s1", "s2" }

\* socket.handshake.query of each connection; "" is an absent parameter
Handshake ==
  [ s1 |-> [ userId |-> "u1", userLanguage |-> "he" ],
    s2 |-> [ userId |-> "u2", userLanguage |-> "" ] ]

\* value || fallback, for handshake parameters
OrElse(v, fallback) == IF v = "" THEN fallback ELSE v

\* room keys
RoomOrdinary == << "room-1" >>
BotRoom == << "babelbot", "-", "u1" >>
PrivSorted == << "private", "_", "u1", "_", "u2" >>
PrivSwapped == << "private", "_", "u2", "_", "u1" >>
PrivBad == << "private", "_", "u1" >>

ChatIds == { RoomOrdinary, BotRoom, PrivSorted, PrivSwapped, PrivBad }

\* texts
Hello == << 72, 105 >>
Voice == << 111, 107 >>
Shalom == << 1513, 1500 >>
Cap == << 99 >>
Blank == << 32 >>

\* (content, transcription, caption) of the inbound payloads
Bodies ==
  { << Hello, Undefined, Undefined, "text" >>,
    << Undefined, Voice, Undefined, "audio" >>,
    << Hello, Voice, Undefined, "audio" >>,
    << Hello, Blank, Undefined, "" >>,
    << Shalom, Undefined, Undefined, "" >>,
    << Hello, Undefined, Cap, "image" >>,
    << Hello, Undefined, Blank, "image" >> }

Payloads ==
  { [ chatId |-> c, content |-> b[1], transcription |-> b[2], caption |-> b[3],
      contentType |-> b[4] ] : c \in ChatIds, b \in Bodies }

\* the sender id of every bot-attributed message
BotSenderId == "babelbot"

\* 'Sorry, I'm having trouble responding right now. Please try again later.'
ApologyText == << 83, 111, 114, 114, 121 >>

\* the message of a successful bot response
BotReply(message) == << 82, 58 >> \o message

\* ------------------------------------------------------------------------
\* State
\* ------------------------------------------------------------------------

\* invocations of the async 'send-message' listener
HandlerIds == { 1, 2 }

VARIABLES
  now,                      \* Date.now()
  ticks,                    \* how often the clock has advanced
  cachedTargetLanguages,    \* index.ts: let cachedTargetLanguages
  lastLanguageCacheUpdate,  \* index.ts: let lastLanguageCacheUpdate
  startup,                  \* the getTargetLanguages() call of the listen callback
  chats,                    \* table chats: the ids of its rows
  chat_participants,        \* table chat_participants: <<chat_id, user_id>>
  nextDbId,                 \* the id the messages table gives its next row
  connected,                \* io.sockets.sockets
  rooms,                    \* socket.rooms of each connection (its own id left out)
  handlers,                 \* the locals and position of each listener invocation
  log,                      \* per invocation: its external calls, their results, its emits
  sent                      \* number of 'send-message' events received

vars ==
  << now, ticks, cachedTargetLanguages, lastLanguageCacheUpdate, startup, chats,
     chat_participants, nextDbId, connected, rooms, handlers, log, sent >>

cacheVars == << cachedTargetLanguages, lastLanguageCacheUpdate >>
dbVars == << chats, chat_participants, nextDbId >>
socketVars == << connected, rooms >>
clockVars == << now, ticks >>

\* new Date().toISOString()
IsoTime(t) == [ fmt |-> "iso", t |-> t ]

\* the created_at column of a returned row
DbTime(created_at) == [ fmt |-> "db", t |-> created_at.t ]

\* `${Date.now()}-${socket.id}-${random}`, `${Date.now()}-babelbot-${random}`,
\* `${Date.now()}-babelbot-error-${random}`
LocalId(t, who, n) == [ src |-> "local", t |-> t, who |-> who, n |-> n, suffix |-> "" ]

\* the id column of a returned messages row
DbId(n) == [ src |-> "db", t |-> 0, who |-> "", n |-> n, suffix |-> "" ]

\* id + '-caption'
CaptionId(id) == [ id EXCEPT !.suffix = "-caption" ]

NoPayload ==
  [ chatId |-> <<>>, content |-> Undefined, transcription |-> Undefined,
    caption |-> Undefined, contentType |-> "", id |-> DbId(0), createdAt |-> IsoTime(0),
    sender |-> [ id |-> "", displayName |-> "" ], originalLanguage |-> "",
    translations |-> <<>>, hasCaptionTranslations |-> FALSE,
    captionTranslations |-> <<>> ]

IdleHandler ==
  [ pc |-> "idle", conn |-> "", data |-> [ chatId |-> <<>>, content |-> Undefined,
      transcription |-> Undefined, caption |-> Undefined, contentType |-> "" ],
    messageId |-> DbId(0), messageTimestamp |-> IsoTime(0), senderLanguage |-> "",
    babelBotLanguage |-> "", userId |-> "", gtlNow |-> 0, targetLanguages |-> <<>>,
    textToTranslate |-> Undefined, pending |-> {}, results |-> <<>>,
    rowsPending |-> {}, failed |-> {},
    messageData |-> NoPayload, botMessageData |-> NoPayload,
    cgChatId |-> <<>>, cgUsers |-> <<>>, savedId |-> DbId(0) ]
\* (failed is not a local of the listener: it records which translateMessage
\* calls ended in the fallback)

Init ==
  /\ now = StartNow
  /\ ticks = 0
  /\ cachedTargetLanguages = << "en" >>
  /\ lastLanguageCacheUpdate = 0
  /\ startup = [ pc |-> "listening", now |-> 0 ]
  /\ chats = {}
  /\ chat_participants = {}
  /\ nextDbId = 1
  /\ connected = {}
  /\ rooms = [ c \in Conns |-> {} ]
  /\ handlers = [ h \in HandlerIds |-> IdleHandler ]
  /\ log = [ h \in HandlerIds |-> <<>> ]
  /\ sent = 0

\* ------------------------------------------------------------------------
\* Log entries
\* ------------------------------------------------------------------------

CallEv(name, arg) == [ op |-> "call", name |-> name, arg |-> arg ]
ResultEv(name, arg) == [ op |-> "result", name |-> name, arg |-> arg ]

\* an emit to a room as socket.to(room).emit would do it: not to the sender
RoomEmit_NotToSender(name, room, payload) ==
  [ op |-> "emit", name |-> name,
    arg |-> [ scope |-> "room", room |-> room, payload |-> payload,
              to |-> { c \in connected : /\ room \in rooms[c]
                                          /\ Handshake[c].userId # payload.sender.id } ] ]

\* an emit to a room that reaches every connected socket
RoomEmit_Everyone(name, room, payload) ==
  [ op |-> "emit", name |-> name,
    arg |-> [ scope |-> "room", room |-> room, payload |-> payload, to |-> connected ] ]

\* io.to(room).emit(name, payload): delivered to the sockets in the room now
RoomEmit(name, room, payload) ==
  [ op |-> "emit", name |-> name,
    arg |-> [ scope |-> "room", room |-> room, payload |-> payload,
              to |-> { c \in connected : room \in rooms[c] } ] ]

\* io.emit(name, payload): delivered to every connected socket
GlobalEmit(name, payload) ==
  [ op |-> "emit", name |-> name,
    arg |-> [ scope |-> "all", room |-> <<>>, payload |-> payload, to |-> connected ] ]

\* a broadcast that forgets the chat-list event
Broadcast_RoomOnly(chatId, payload) ==
  << RoomEmit("new-message", chatId, payload) >>

\* io.to(chatId).emit('new-message', p); io.emit('chat-message-received', p)
Broadcast(chatId, payload) ==
  << RoomEmit("new-message", chatId, payload),
     GlobalEmit("chat-message-received", payload) >>

\* ------------------------------------------------------------------------
\* Pieces of the 'send-message' listener (index.ts)
\* ------------------------------------------------------------------------

\* data.transcription && data.transcription.trim() !== ''
HasTranscription(data) == Truthy(data.transcription) /\ Trim(data.transcription) # <<>>

\* textToTranslate, and contentToSave of both paths
EffectiveText(data) == IF HasTranscription(data) THEN data.transcription ELSE data.content

\* contentToDetect of the bot path
ContentToDetect(data) ==
  IF HasTranscription(data) THEN data.transcription
  ELSE IF Truthy(data.content) THEN data.content ELSE <<>>

\* the first argument of babelBotService.chat: data.content || data.transcription || ''
BotChatMessage(data) ==
  IF Truthy(data.content) THEN data.content
  ELSE IF Truthy(data.transcription) THEN data.transcription ELSE <<>>

\* a bot path that always takes the detected language
BabelBotLanguage_AlwaysDetected(detectedLanguage, senderLanguage) == detectedLanguage

\* babelBotLanguage
BabelBotLanguage(detectedLanguage, senderLanguage) ==
  IF detectedLanguage # "en" \/ senderLanguage = "en" THEN detectedLanguage
  ELSE senderLanguage

\* a test for the bot namespace with the separator of the private namespace
IsBabelBotChat_WrongPrefix(chatId) == StartsWith(chatId, << "babelbot", "_" >>)

\* data.chatId.startsWith('babelbot-')
IsBabelBotChat(chatId) == StartsWith(chatId, << "babelbot", "-" >>)

\* data.chatId.startsWith('private_')
IsPrivateChat(chatId) == StartsWith(chatId, << "private", "_" >>)

\* a test that takes a blank caption for a caption
HasCaption_AnyString(data) == Truthy(data.caption)

\* data.caption && data.caption.trim() !== ''
HasCaption(data) == Truthy(data.caption) /\ Trim(data.caption) # <<>>

\* the argument object of a createMessage call of the listener
MessageRow(chatId, senderId, content, contentType, lang, ts) ==
  [ chat_id |-> chatId, sender_id |-> senderId, content |-> content,
    content_type |-> contentType, original_language |-> lang, created_at |-> ts ]

\* a fan-out that does not leave the sender's language out
OtherLanguages_KeepsSender(targetLanguages, senderLanguage) == targetLanguages

\* the languages other than the sender's, in the order of targetLanguages
OtherLanguages(targetLanguages, senderLanguage) ==
  SelectSeq(targetLanguages, LAMBDA lang : lang # senderLanguage)

SeqToSet(s) == { s[i] : i \in 1..Len(s) }

\* the translation requests of one fan-out, in the order they are started
TranslateCalls(langs, messageId, text, senderLanguage) ==
  [ i \in 1..Len(langs) |->
      CallEv("translateMessage",
             [ messageId |-> messageId, targetLanguage |-> langs[i],
               originalContent |-> text, originalLanguage |-> senderLanguage ]) ]

\* the mapping built after a join: the original under the sender's language,
\* then every result under its language
BuildTranslations(senderLanguage, original, results) ==
  [ lang \in { senderLanguage } \cup DOMAIN results |->
      IF lang \in DOMAIN results THEN results[lang] ELSE original ]

\* the createMessageTranslation calls for one mapping, in the order of its keys
RowCalls(langs, messageId, mapping) ==
  [ i \in 1..Len(langs) |->
      CallEv("createMessageTranslation",
             [ message_id |-> messageId, target_language |-> langs[i],
               translated_content |-> mapping[langs[i]] ]) ]

\* rows for every key of a mapping, the sender's language too
RowLanguages_AllKeys(H, mapping) ==
  SelectSeq(H.targetLanguages, LAMBDA lang : lang \in DOMAIN mapping)

\* the keys of a mapping other than the sender's language, in insertion order
RowLanguages(H, mapping) ==
  SelectSeq(OtherLanguages(H.targetLanguages, H.senderLanguage),
            LAMBDA lang : lang \in DOMAIN mapping)

\* [user1Id, user2Id].sort(): by UTF-16 code units; the model's ids differ in
\* their last token only
IdBefore(a, b) ==
  LET rank == [ t \in { "u1", "u2" } |-> IF t = "u1" THEN 1 ELSE 2 ]
  IN rank[a[Len(a)]] < rank[b[Len(b)]]

SortedUsers(user1Id, user2Id) ==
  IF IdBefore(user2Id, user1Id) THEN << user2Id, user1Id >> ELSE << user1Id, user2Id >>

\* a key built from the two ids in the order they were given
PrivateChatId_Unsorted(user1Id, user2Id) ==
  << "private", "_" >> \o user1Id \o << "_" >> \o user2Id

\* createOrGetPrivateChat: `private_${sortedUsers[0]}_${sortedUsers[1]}`
PrivateChatId(user1Id, user2Id) ==
  LET sortedUsers == SortedUsers(user1Id, user2Id)
  IN << "private", "_" >> \o sortedUsers[1] \o << "_" >> \o sortedUsers[2]

\* the createMessage call of the ordinary path
CreateMessageCall(H) ==
  CallEv("createMessage",
         MessageRow(H.data.chatId, OrElse(Handshake[H.conn].userId, "unknown"),
                    EffectiveText(H.data), OrElse(H.data.contentType, "text"),
                    H.senderLanguage, H.messageTimestamp))

\* an end of handling that emits the message under the id it was given at the
\* start, whatever the save returned
Finish_StaleId(h, H, events) ==
  /\ handlers' = [ handlers EXCEPT ![h] = [ H EXCEPT !.pc = "done", !.rowsPending = {} ] ]
  /\ log' = [ log EXCEPT ![h] = log[h] \o events
                 \o Broadcast(H.data.chatId, [ H.messageData EXCEPT !.id = H.messageId ]) ]

\* the handler has finished: the catch of the persistence block, or its end,
\* falls through to the two emits
Finish(h, H, events) ==
  /\ handlers' = [ handlers EXCEPT ![h] = [ H EXCEPT !.pc = "done", !.rowsPending = {} ] ]
  /\ log' = [ log EXCEPT ![h] = log[h] \o events \o Broadcast(H.data.chatId, H.messageData) ]

\* the handler goes on to its next await
Goto(h, H, events) ==
  /\ handlers' = [ handlers EXCEPT ![h] = H ]
  /\ log' = [ log EXCEPT ![h] = log[h] \o events ]

\* ------------------------------------------------------------------------
\* Environment
\* ------------------------------------------------------------------------

\* the wall clock advances: by the TTL exactly, or by a millisecond more.  The
\* clock is read when a message is received and when the bot service answers;
\* time that passes elsewhere is seen at the next of these reads
Tick(active) ==
  /\ ticks < MaxTicks
  /\ \/ connected # {} /\ sent + 1 \in active
     \/ \E h \in active : handlers[h].pc = "bot_chat"
  /\ \E d \in { LANGUAGE_CACHE_TTL, LANGUAGE_CACHE_TTL + 1 } : now' = now + d
  /\ ticks' = ticks + 1
  /\ UNCHANGED << cacheVars, dbVars, socketVars, startup, handlers, log, sent >>

\* io.on('connection'): clients connect once the server is up, and before the
\* message is received
Connect(c) ==
  /\ startup.pc = "done"
  /\ sent = 0
  /\ c \notin connected
  /\ connected' = connected \cup { c }
  /\ rooms' = [ rooms EXCEPT ![c] = {} ]
  /\ UNCHANGED << clockVars, cacheVars, dbVars, startup, handlers, log, sent >>

\* the room keys clients ask to join and to leave
JoinRooms == { RoomOrdinary, BotRoom }

\* a join that drops the room when the socket is in it already
JoinChat_Toggle(c, chatId) ==
  /\ c \in connected
  /\ rooms' = [ rooms EXCEPT ![c] = IF chatId \in @ THEN @ \ { chatId }
                                    ELSE @ \cup { chatId } ]
  /\ UNCHANGED << clockVars, cacheVars, dbVars, connected, startup, handlers, log, sent >>

\* socket.on('join-chat'): socket.join(chatId); a socket's rooms are a Set
JoinChat(c, chatId) ==
  /\ c \in connected
  /\ rooms' = [ rooms EXCEPT ![c] = @ \cup { chatId } ]
  /\ UNCHANGED << clockVars, cacheVars, dbVars, connected, startup, handlers, log, sent >>

\* socket.on('leave-chat'): socket.leave(chatId)
LeaveChat(c, chatId) ==
  /\ c \in connected
  /\ rooms' = [ rooms EXCEPT ![c] = @ \ { chatId } ]
  /\ UNCHANGED << clockVars, cacheVars, dbVars, connected, startup, handlers, log, sent >>

\* a disconnect that leaves the socket in its rooms
RoomsAfterDisconnect_KeepsAll(joined) == joined

\* socket.rooms after the 'disconnect' listener: the listener leaves every room
\* of socket.rooms other than socket.id (socket.io itself leaves them all when
\* the socket closes, so none is left either way)
RoomsAfterDisconnect(joined) == joined \ { roomId \in joined : TRUE }

\* a disconnect that ends the listener invocations of its socket without
\* their emits
Disconnect_CancelsHandlers(c) ==
  /\ c \in connected
  /\ connected' = connected \ { c }
  /\ rooms' = [ rooms EXCEPT ![c] = RoomsAfterDisconnect(@) ]
  /\ handlers' = [ h \in HandlerIds |->
                     IF handlers[h].conn = c /\ handlers[h].pc # "idle"
                     THEN [ handlers[h] EXCEPT !.pc = "done", !.pending = {},
                                               !.rowsPending = {} ]
                     ELSE handlers[h] ]
  /\ UNCHANGED << clockVars, cacheVars, dbVars, startup, log, sent >>

\* socket.on('disconnect'): the socket is gone from io.sockets.sockets and from
\* its rooms; listener invocations of the socket that have started go on
Disconnect(c) ==
  /\ c \in connected
  /\ connected' = connected \ { c }
  /\ rooms' = [ rooms EXCEPT ![c] = RoomsAfterDisconnect(@) ]
  /\ UNCHANGED << clockVars, cacheVars, dbVars, startup, handlers, log, sent >>

\* ------------------------------------------------------------------------
\* getTargetLanguages (index.ts)
\* ------------------------------------------------------------------------

\* an expiry test that refreshes already when exactly the TTL has passed
CacheExpired_AtTTL(t) == t - lastLanguageCacheUpdate >= LANGUAGE_CACHE_TTL

\* now - lastLanguageCacheUpdate > LANGUAGE_CACHE_TTL
CacheExpired(t) == t - lastLanguageCacheUpdate > LANGUAGE_CACHE_TTL

\* server.listen callback: rooms.clear(), then await getTargetLanguages()
ServerListen ==
  /\ startup.pc = "listening"
  /\ rooms' = [ c \in Conns |-> {} ]
  /\ startup' = IF CacheExpired(now) THEN [ pc |-> "refreshing", now |-> now ]
                 ELSE [ pc |-> "done", now |-> now ]
  /\ UNCHANGED << clockVars, cacheVars, dbVars, connected, handlers, log, sent >>

\* the getActiveUsersLanguages() query of the start-up call resolves
StartupRefreshResolve ==
  /\ startup.pc = "refreshing"
  /\ \/ \E languages \in QueryResults :
          /\ cachedTargetLanguages' = UniqueLanguages(languages)
          /\ lastLanguageCacheUpdate' = startup.now
     \/ UNCHANGED cacheVars
  /\ startup' = [ startup EXCEPT !.pc = "done" ]
  /\ UNCHANGED << clockVars, dbVars, socketVars, handlers, log, sent >>

\* ------------------------------------------------------------------------
\* 'send-message', ordinary and private rooms
\* ------------------------------------------------------------------------

\* getTargetLanguages() has returned T: start one translation per other language
StartTextFanout(h, H, T, events) ==
  LET text == EffectiveText(H.data)
      langs == OtherLanguages(T, H.senderLanguage)
  IN Goto(h, [ H EXCEPT !.pc = "translating", !.targetLanguages = T,
                        !.textToTranslate = text, !.pending = SeqToSet(langs),
                        !.results = <<>> ],
          events \o TranslateCalls(langs, H.messageId, text, H.senderLanguage))

\* the first statement of the persistence try block up to its first await
EnterPersistence(h, H) ==
  LET chatId == H.data.chatId
      parts == Split(chatId, "_")
  IN IF IsPrivateChat(chatId)
     THEN IF Len(parts) >= 3
          THEN LET user1Id == parts[2]
                   user2Id == parts[3]
               IN Goto(h, [ H EXCEPT !.pc = "cg_check",
                                     !.cgUsers = << user1Id, user2Id >>,
                                     !.cgChatId = PrivateChatId(user1Id, user2Id) ],
                       << CallEv("createOrGetPrivateChat",
                                 [ user1Id |-> user1Id, user2Id |-> user2Id ]) >>)
          ELSE Finish(h, H, <<>>)
     ELSE Goto(h, [ H EXCEPT !.pc = "save" ], << CreateMessageCall(H) >>)

\* socket.on('send-message'): from the event to the first await
SendMessage(h, c, data) ==
  /\ h = sent + 1
  /\ c \in connected
  /\ handlers[h].pc = "idle"
  /\ sent' = sent + 1
  /\ LET messageTimestamp == IsoTime(now)
         messageId == LocalId(now, c, sent + 1)
         senderLanguage == OrElse(Handshake[c].userLanguage, "en")
         userId == OrElse(Handshake[c].userId, "unknown")
         H0 == [ IdleHandler EXCEPT !.conn = c, !.data = data,
                   !.messageId = messageId, !.messageTimestamp = messageTimestamp,
                   !.senderLanguage = senderLanguage, !.userId = userId ]
     IN IF IsBabelBotChat(data.chatId)
        THEN LET detectedLanguage == detectLanguageFromText(ContentToDetect(data))
                 babelBotLanguage == BabelBotLanguage(detectedLanguage, senderLanguage)
                 userMessageData ==
                   [ chatId |-> data.chatId, content |-> data.content,
                     transcription |-> data.transcription, caption |-> data.caption,
                     contentType |-> data.contentType, id |-> messageId,
                     createdAt |-> messageTimestamp,
                     sender |-> [ id |-> userId, displayName |-> userId ],
                     originalLanguage |-> babelBotLanguage, translations |-> <<>>,
                     hasCaptionTranslations |-> FALSE, captionTranslations |-> <<>> ]
             IN Goto(h, [ H0 EXCEPT !.pc = "bot_saveUser",
                                    !.babelBotLanguage = babelBotLanguage,
                                    !.messageData = userMessageData ],
                     << CallEv("createMessage",
                               MessageRow(data.chatId, userId, EffectiveText(data),
                                          OrElse(data.contentType, "text"),
                                          babelBotLanguage, messageTimestamp)) >>)
        ELSE LET messageData ==
                   [ chatId |-> data.chatId, content |-> data.content,
                     transcription |-> data.transcription, caption |-> data.caption,
                     contentType |-> data.contentType, id |-> messageId,
                     createdAt |-> messageTimestamp,
                     sender |-> [ id |-> userId,
                                  displayName |-> OrElse(Handshake[c].userId, "Unknown User") ],
                     originalLanguage |-> senderLanguage, translations |-> <<>>,
                     hasCaptionTranslations |-> FALSE, captionTranslations |-> <<>> ]
                 H1 == [ H0 EXCEPT !.messageData = messageData, !.gtlNow = now ]
             IN IF CacheExpired(now)
                THEN Goto(h, [ H1 EXCEPT !.pc = "gtl" ],
                          << CallEv("getTargetLanguages", <<>>),
                             CallEv("getActiveUsersLanguages", <<>>) >>)
                ELSE StartTextFanout(h, H1, cachedTargetLanguages,
                                     << CallEv("getTargetLanguages", <<>>) >>)
  /\ UNCHANGED << clockVars, cacheVars, dbVars, socketVars, startup >>

\* a refresh that records the time of the attempt also when the query rejects
CacheRefreshResolve_StampOnFailure(h) ==
  LET H == handlers[h]
  IN /\ H.pc = "gtl"
     /\ \/ \E languages \in QueryResults :
             /\ cachedTargetLanguages' = UniqueLanguages(languages)
             /\ lastLanguageCacheUpdate' = H.gtlNow
             /\ StartTextFanout(h, H, UniqueLanguages(languages),
                                << ResultEv("getActiveUsersLanguages", [ ok |-> TRUE ]) >>)
        \/ /\ UNCHANGED cachedTargetLanguages
           /\ lastLanguageCacheUpdate' = H.gtlNow
           /\ StartTextFanout(h, H, cachedTargetLanguages,
                              << ResultEv("getActiveUsersLanguages", [ ok |-> FALSE ]) >>)
     /\ UNCHANGED << clockVars, dbVars, socketVars, startup, sent >>

\* the getActiveUsersLanguages() query of a handler's getTargetLanguages() call
\* resolves or rejects; getTargetLanguages returns cachedTargetLanguages
CacheRefreshResolve(h) ==
  LET H == handlers[h]
  IN /\ H.pc = "gtl"
     /\ \/ \E languages \in QueryResults :
             /\ cachedTargetLanguages' = UniqueLanguages(languages)
             /\ lastLanguageCacheUpdate' = H.gtlNow
             /\ StartTextFanout(h, H, UniqueLanguages(languages),
                                << ResultEv("getActiveUsersLanguages", [ ok |-> TRUE ]) >>)
        \/ /\ UNCHANGED cacheVars
           /\ StartTextFanout(h, H, cachedTargetLanguages,
                              << ResultEv("getActiveUsersLanguages", [ ok |-> FALSE ]) >>)
     /\ UNCHANGED << clockVars, dbVars, socketVars, startup, sent >>

\* one translateMessage call of the text fan-out returns
TranslateResolve(h, lang) ==
  LET H == handlers[h]
  IN /\ H.pc = "translating"
     /\ lang \in H.pending
     /\ \E firstOk \in 0..Len(modelNamesToTry) :
          LET translated == translateMessage(firstOk, lang, H.textToTranslate)
          IN Goto(h, [ H EXCEPT !.pending = H.pending \ { lang },
                                !.results = (lang :> translated) @@ H.results,
                                !.failed = IF firstOk = 0
                                           THEN H.failed \cup { << "text", lang >> }
                                           ELSE H.failed ],
                  <<>>)
     /\ UNCHANGED << clockVars, cacheVars, dbVars, socketVars, startup, sent >>

\* a join that reads the cache again for the caption fan-out
TextJoin_RereadsCache(h) ==
  LET H == handlers[h]
      translations == BuildTranslations(H.senderLanguage, H.textToTranslate, H.results)
      H1 == [ H EXCEPT !.messageData.translations = translations, !.results = <<>> ]
      langs == OtherLanguages(cachedTargetLanguages, H.senderLanguage)
  IN /\ H.pc = "translating"
     /\ H.pending = {}
     /\ IF HasCaption(H.data)
        THEN Goto(h, [ H1 EXCEPT !.pc = "captions", !.pending = SeqToSet(langs),
                                 !.messageData.hasCaptionTranslations = TRUE ],
                  TranslateCalls(langs, CaptionId(H.messageId), H.data.caption,
                                 H.senderLanguage))
        ELSE EnterPersistence(h, H1)
     /\ UNCHANGED << clockVars, cacheVars, dbVars, socketVars, startup, sent >>

\* await Promise.all(translationPromises) returns: build the mapping, then the
\* caption fan-out or the persistence block
TextJoin(h) ==
  LET H == handlers[h]
      translations == BuildTranslations(H.senderLanguage, H.textToTranslate, H.results)
      H1 == [ H EXCEPT !.messageData.translations = translations, !.results = <<>> ]
      langs == OtherLanguages(H.targetLanguages, H.senderLanguage)
  IN /\ H.pc = "translating"
     /\ H.pending = {}
     /\ IF HasCaption(H.data)
        THEN Goto(h, [ H1 EXCEPT !.pc = "captions", !.pending = SeqToSet(langs),
                                 !.messageData.hasCaptionTranslations = TRUE ],
                  TranslateCalls(langs, CaptionId(H.messageId), H.data.caption,
                                 H.senderLanguage))
        ELSE EnterPersistence(h, H1)
     /\ UNCHANGED << clockVars, cacheVars, dbVars, socketVars, startup, sent >>

\* one translateMessage call of the caption fan-out returns
CaptionResolve(h, lang) ==
  LET H == handlers[h]
  IN /\ H.pc = "captions"
     /\ lang \in H.pending
     /\ \E firstOk \in 0..Len(modelNamesToTry) :
          LET translated == translateMessage(firstOk, lang, H.data.caption)
          IN Goto(h, [ H EXCEPT !.pending = H.pending \ { lang },
                                !.results = (lang :> translated) @@ H.results,
                                !.failed = IF firstOk = 0
                                           THEN H.failed \cup { << "caption", lang >> }
                                           ELSE H.failed ],
                  <<>>)
     /\ UNCHANGED << clockVars, cacheVars, dbVars, socketVars, startup, sent >>

\* await Promise.all(captionTranslationPromises) returns
CaptionJoin(h) ==
  LET H == handlers[h]
      captionTranslations == BuildTranslations(H.senderLanguage, H.data.caption, H.results)
  IN /\ H.pc = "captions"
     /\ H.pending = {}
     /\ EnterPersistence(h, [ H EXCEPT !.messageData.captionTranslations = captionTranslations,
                                       !.results = <<>> ])
     /\ UNCHANGED << clockVars, cacheVars, dbVars, socketVars, startup, sent >>

\* a check that never finds the row and always goes on to the INSERT
CheckChatResolve_NeverFinds(h, ok) ==
  LET H == handlers[h]
  IN /\ H.pc = "cg_check"
     /\ IF ~ok
        THEN Finish(h, H, << ResultEv("createOrGetPrivateChat", [ ok |-> FALSE ]) >>)
        ELSE Goto(h, [ H EXCEPT !.pc = "cg_insert" ],
                  << CallEv("INSERT INTO chats", [ id |-> H.cgChatId ]) >>)
     /\ UNCHANGED << clockVars, cacheVars, dbVars, socketVars, startup, sent >>

\* createOrGetPrivateChat: the SELECT on chats resolves or rejects
CheckChatResolve(h, ok) ==
  LET H == handlers[h]
  IN /\ H.pc = "cg_check"
     /\ IF ~ok
        THEN Finish(h, H, << ResultEv("createOrGetPrivateChat", [ ok |-> FALSE ]) >>)
        ELSE IF H.cgChatId \in chats
        THEN Goto(h, [ H EXCEPT !.pc = "save" ],
                  << ResultEv("createOrGetPrivateChat", [ ok |-> TRUE ]),
                     CreateMessageCall(H) >>)
        ELSE Goto(h, [ H EXCEPT !.pc = "cg_insert" ],
                  << CallEv("INSERT INTO chats", [ id |-> H.cgChatId ]) >>)
     /\ UNCHANGED << clockVars, cacheVars, dbVars, socketVars, startup, sent >>

\* createOrGetPrivateChat: the INSERT into chats resolves or rejects (it
\* rejects when the id is already there)
InsertChatResolve(h, ok) ==
  LET H == handlers[h]
  IN /\ H.pc = "cg_insert"
     /\ ok => H.cgChatId \notin chats
     /\ IF ok
        THEN /\ chats' = chats \cup { H.cgChatId }
             /\ Goto(h, [ H EXCEPT !.pc = "cg_part1" ], <<>>)
        ELSE /\ UNCHANGED chats
             /\ Finish(h, H, << ResultEv("createOrGetPrivateChat", [ ok |-> FALSE ]) >>)
     /\ UNCHANGED << clockVars, cacheVars, chat_participants, nextDbId, socketVars,
                     startup, sent >>

\* createOrGetPrivateChat: an INSERT into chat_participants resolves or rejects
InsertParticipantResolve(h, ok) ==
  LET H == handlers[h]
      user == IF H.pc = "cg_part1" THEN H.cgUsers[1] ELSE H.cgUsers[2]
  IN /\ H.pc \in { "cg_part1", "cg_part2" }
     /\ IF ~ok
        THEN /\ UNCHANGED chat_participants
             /\ Finish(h, H, << ResultEv("createOrGetPrivateChat", [ ok |-> FALSE ]) >>)
        ELSE /\ chat_participants' = chat_participants \cup { << H.cgChatId, user >> }
             /\ IF H.pc = "cg_part1"
                THEN Goto(h, [ H EXCEPT !.pc = "cg_part2" ], <<>>)
                ELSE Goto(h, [ H EXCEPT !.pc = "save" ],
                          << ResultEv("createOrGetPrivateChat", [ ok |-> TRUE ]),
                             CreateMessageCall(H) >>)
     /\ UNCHANGED << clockVars, cacheVars, chats, nextDbId, socketVars, startup, sent >>

\* await createMessage(...) of the ordinary path resolves or rejects
SaveResolve(h, ok) ==
  LET H == handlers[h]
      savedId == DbId(nextDbId)
      H1 == [ H EXCEPT !.messageData.id = savedId,
                       !.messageData.createdAt = DbTime(H.messageTimestamp),
                       !.savedId = savedId ]
      langs == RowLanguages(H, H.messageData.translations)
  IN /\ H.pc = "save"
     /\ IF ok
        THEN /\ nextDbId' = nextDbId + 1
             /\ Goto(h, [ H1 EXCEPT !.pc = "saveRows", !.rowsPending = SeqToSet(langs) ],
                     << ResultEv("createMessage", [ ok |-> TRUE, id |-> savedId ]) >>
                       \o RowCalls(langs, savedId, H.messageData.translations))
        ELSE /\ UNCHANGED nextDbId
             /\ Finish(h, H, << ResultEv("createMessage", [ ok |-> FALSE, id |-> savedId ]) >>)
     /\ UNCHANGED << clockVars, cacheVars, chats, chat_participants, socketVars,
                     startup, sent >>

\* one createMessageTranslation call resolves or rejects; a rejection rejects
\* the Promise.all and the catch takes over
RowResolve(h, lang, ok) ==
  LET H == handlers[h]
  IN /\ H.pc \in { "saveRows", "saveCaptionRows" }
     /\ lang \in H.rowsPending
     /\ IF ok THEN Goto(h, [ H EXCEPT !.rowsPending = H.rowsPending \ { lang } ], <<>>)
        ELSE Finish(h, H, << ResultEv("createMessageTranslation", [ ok |-> FALSE ]) >>)
     /\ UNCHANGED << clockVars, cacheVars, dbVars, socketVars, startup, sent >>

\* await Promise.all(translationPromises) of the persistence block returns
TextRowsJoin(h) ==
  LET H == handlers[h]
      langs == RowLanguages(H, H.messageData.captionTranslations)
  IN /\ H.pc = "saveRows"
     /\ H.rowsPending = {}
     /\ IF H.messageData.hasCaptionTranslations
        THEN Goto(h, [ H EXCEPT !.pc = "saveCaptionRows", !.rowsPending = SeqToSet(langs) ],
                  RowCalls(langs, CaptionId(H.savedId), H.messageData.captionTranslations))
        ELSE Finish(h, H, <<>>)
     /\ UNCHANGED << clockVars, cacheVars, dbVars, socketVars, startup, sent >>

\* await Promise.all(captionTranslationPromises) of the persistence block returns
CaptionRowsJoin(h) ==
  LET H == handlers[h]
  IN /\ H.pc = "saveCaptionRows"
     /\ H.rowsPending = {}
     /\ Finish(h, H, <<>>)
     /\ UNCHANGED << clockVars, cacheVars, dbVars, socketVars, startup, sent >>

\* ------------------------------------------------------------------------
\* 'send-message', bot rooms
\* ------------------------------------------------------------------------

\* the outcomes of BabelBotService.chat: a response, or an Error for a
\* non-2xx status, a network failure or the 30 second abort
BotOutcomes == { "ok", "http-error", "network-error", "timeout" }

\* a chat that does not look at response.ok and parses an error body as a response
BabelBotChat_IgnoresStatus(outcome, message) ==
  IF outcome \in { "ok", "http-error" } THEN [ ok |-> TRUE, message |-> <<>> ]
  ELSE [ ok |-> FALSE, message |-> <<>> ]

\* BabelBotService.chat (services/babelbot.ts)
BabelBotChat(outcome, message) ==
  IF outcome = "ok" THEN [ ok |-> TRUE, message |-> BotReply(message) ]
  ELSE [ ok |-> FALSE, message |-> <<>> ]

\* a message attributed to the bot
BotPayload(chatId, content, id, createdAt, lang) ==
  [ chatId |-> chatId, content |-> content, transcription |-> Undefined,
    caption |-> Undefined, contentType |-> "text", id |-> id, createdAt |-> createdAt,
    sender |-> [ id |-> BotSenderId, displayName |-> "Babel Bot" ],
    originalLanguage |-> lang, translations |-> <<>>,
    hasCaptionTranslations |-> FALSE, captionTranslations |-> <<>> ]

\* await createMessage(...) for the user's message resolves or rejects; then
\* babelBotService.chat is called
BotUserSaveResolve(h, ok) ==
  LET H == handlers[h]
      savedId == DbId(nextDbId)
      userMessageData == [ H.messageData EXCEPT !.id = savedId,
                                                !.createdAt = DbTime(H.messageTimestamp) ]
      chatCall == CallEv("babelBotService.chat",
                         [ message |-> BotChatMessage(H.data), userId |-> H.userId,
                           sessionId |-> H.data.chatId, language |-> H.babelBotLanguage ])
  IN /\ H.pc = "bot_saveUser"
     /\ IF ok
        THEN /\ nextDbId' = nextDbId + 1
             /\ Goto(h, [ H EXCEPT !.pc = "bot_chat", !.messageData = userMessageData ],
                     << ResultEv("createMessage", [ ok |-> TRUE, id |-> savedId ]) >>
                       \o Broadcast(H.data.chatId, userMessageData) \o << chatCall >>)
        ELSE /\ UNCHANGED nextDbId
             /\ Goto(h, [ H EXCEPT !.pc = "bot_chat" ],
                     << ResultEv("createMessage", [ ok |-> FALSE, id |-> savedId ]),
                        chatCall >>)
     /\ UNCHANGED << clockVars, cacheVars, chats, chat_participants, socketVars,
                     startup, sent >>

\* await babelBotService.chat(...) returns or throws
BotChatResolve(h, outcome) ==
  LET H == handlers[h]
      botResponse == BabelBotChat(outcome, BotChatMessage(H.data))
      botMessageData == BotPayload(H.data.chatId, botResponse.message,
                                   LocalId(now, "babelbot", 0), IsoTime(now),
                                   H.babelBotLanguage)
      errorMessageData == BotPayload(H.data.chatId, ApologyText,
                                     LocalId(now, "babelbot-error", 0), IsoTime(now),
                                     H.senderLanguage)
  IN /\ H.pc = "bot_chat"
     /\ IF botResponse.ok
        THEN Goto(h, [ H EXCEPT !.pc = "bot_saveReply", !.botMessageData = botMessageData ],
                  << ResultEv("babelBotService.chat", [ ok |-> TRUE, outcome |-> outcome ]),
                     CallEv("createMessage",
                            MessageRow(H.data.chatId, BotSenderId, botResponse.message,
                                       "text", H.senderLanguage, IsoTime(now))) >>)
        ELSE Goto(h, [ H EXCEPT !.pc = "done" ],
                  << ResultEv("babelBotService.chat", [ ok |-> FALSE, outcome |-> outcome ]) >>
                    \o Broadcast(H.data.chatId, errorMessageData))
     /\ UNCHANGED << clockVars, cacheVars, dbVars, socketVars, startup, sent >>

\* await createMessage(...) for the bot's reply resolves or rejects
BotReplySaveResolve(h, ok) ==
  LET H == handlers[h]
      savedId == DbId(nextDbId)
      saved == [ H.botMessageData EXCEPT !.id = savedId,
                                         !.createdAt = DbTime(H.botMessageData.createdAt) ]
  IN /\ H.pc = "bot_saveReply"
     /\ IF ok
        THEN /\ nextDbId' = nextDbId + 1
             /\ Goto(h, [ H EXCEPT !.pc = "done", !.botMessageData = saved ],
                     << ResultEv("createMessage", [ ok |-> TRUE, id |-> savedId ]) >>
                       \o Broadcast(H.data.chatId, saved))
        ELSE /\ UNCHANGED nextDbId
             /\ Goto(h, [ H EXCEPT !.pc = "done" ],
                     << ResultEv("createMessage", [ ok |-> FALSE, id |-> savedId ]) >>
                       \o Broadcast(H.data.chatId, H.botMessageData))
     /\ UNCHANGED << clockVars, cacheVars, chats, chat_participants, socketVars,
                     startup, sent >>

\* ------------------------------------------------------------------------
\* Specification: the server starts, clients connect, one message at a time
\* is received and handled to its end
\* ------------------------------------------------------------------------

\* one message is handled in a run
Active == { 1 }

Next ==
  \/ Tick(Active)
  \/ ServerListen
  \/ StartupRefreshResolve
  \/ \E c \in Conns : Connect(c)
  \/ \E h \in Active, c \in Conns, data \in Payloads : SendMessage(h, c, data)
  \/ \E h \in Active : CacheRefreshResolve(h)
  \/ \E h \in Active, lang \in SeqToSet(AllLangs) : TranslateResolve(h, lang)
  \/ \E h \in Active : TextJoin(h)
  \/ \E h \in Active, lang \in SeqToSet(AllLangs) : CaptionResolve(h, lang)
  \/ \E h \in Active : CaptionJoin(h)
  \/ \E h \in Active, ok \in BOOLEAN : CheckChatResolve(h, ok)
  \/ \E h \in Active, ok \in BOOLEAN : InsertChatResolve(h, ok)
  \/ \E h \in Active, ok \in BOOLEAN : InsertParticipantResolve(h, ok)
  \/ \E h \in Active, ok \in BOOLEAN : SaveResolve(h, ok)
  \/ \E h \in Active, lang \in SeqToSet(AllLangs), ok \in BOOLEAN : RowResolve(h, lang, ok)
  \/ \E h \in Active : TextRowsJoin(h)
  \/ \E h \in Active : CaptionRowsJoin(h)
  \/ \E h \in Active, ok \in BOOLEAN : BotUserSaveResolve(h, ok)
  \/ \E h \in Active, outcome \in BotOutcomes : BotChatResolve(h, outcome)
  \/ \E h \in Active, ok \in BOOLEAN : BotReplySaveResolve(h, ok)

Spec == Init /\ [][Next]_vars

\* ------------------------------------------------------------------------
\* Specification: as above, with clients that join and leave rooms and
\* disconnect at any moment, also while a message of theirs is handled
\* ------------------------------------------------------------------------

\* the messages of this specification: a text to an ordinary room or to a bot room
RoomPayloads ==
  { [ chatId |-> c, content |-> Hello, transcription |-> Undefined,
      caption |-> Undefined, contentType |-> "text" ] : c \in JoinRooms }

NextRooms ==
  \/ ServerListen
  \/ StartupRefreshResolve
  \/ \E c \in Conns : Connect(c)
  \/ \E c \in Conns, chatId \in JoinRooms : JoinChat(c, chatId)
  \/ \E c \in Conns, chatId \in JoinRooms : LeaveChat(c, chatId)
  \/ \E c \in Conns : Disconnect(c)
  \/ \E h \in Active, c \in Conns, data \in RoomPayloads : SendMessage(h, c, data)
  \/ \E h \in Active : CacheRefreshResolve(h)
  \/ \E h \in Active, lang \in SeqToSet(AllLangs) : TranslateResolve(h, lang)
  \/ \E h \in Active : TextJoin(h)
  \/ \E h \in Active, ok \in BOOLEAN : SaveResolve(h, ok)
  \/ \E h \in Active, lang \in SeqToSet(AllLangs), ok \in BOOLEAN : RowResolve(h, lang, ok)
  \/ \E h \in Active : TextRowsJoin(h)
  \/ \E h \in Active, ok \in BOOLEAN : BotUserSaveResolve(h, ok)
  \/ \E h \in Active, outcome \in BotOutcomes : BotChatResolve(h, outcome)
  \/ \E h \in Active, ok \in BOOLEAN : BotReplySaveResolve(h, ok)

SpecRooms == Init /\ [][NextRooms]_vars

\* ------------------------------------------------------------------------
\* Specifications: two messages to the private room of u1 and u2, the second
\* received after the first was handled to its end (SpecSequential), or at
\* any moment (SpecConcurrent)
\* ------------------------------------------------------------------------

\* both listener invocations are used
TwoMessages == { 1, 2 }

\* the messages of these specifications: a text to the private room of u1
\* and u2, under either order of the two ids in the key
PrivatePayloads ==
  { [ chatId |-> c, content |-> Hello, transcription |-> Undefined,
      caption |-> Undefined, contentType |-> "text" ] : c \in { PrivSorted, PrivSwapped } }

\* the steps of a handler on the ordinary path without a caption
PrivateHandling ==
  \/ \E h \in TwoMessages : CacheRefreshResolve(h)
  \/ \E h \in TwoMessages, lang \in SeqToSet(AllLangs) : TranslateResolve(h, lang)
  \/ \E h \in TwoMessages : TextJoin(h)
  \/ \E h \in TwoMessages, ok \in BOOLEAN : CheckChatResolve(h, ok)
  \/ \E h \in TwoMessages, ok \in BOOLEAN : InsertChatResolve(h, ok)
  \/ \E h \in TwoMessages, ok \in BOOLEAN : InsertParticipantResolve(h, ok)
  \/ \E h \in TwoMessages, ok \in BOOLEAN : SaveResolve(h, ok)
  \/ \E h \in TwoMessages, lang \in SeqToSet(AllLangs), ok \in BOOLEAN : RowResolve(h, lang, ok)
  \/ \E h \in TwoMessages : TextRowsJoin(h)

\* the event loop has handled the messages received before the h-th to their end
PreviousDone(h) == \A g \in TwoMessages : g < h => handlers[g].pc = "done"

NextSequential ==
  \/ ServerListen
  \/ StartupRefreshResolve
  \/ \E c \in Conns : Connect(c)
  \/ \E h \in TwoMessages, c \in Conns, data \in PrivatePayloads :
       PreviousDone(h) /\ SendMessage(h, c, data)
  \/ PrivateHandling

SpecSequential == Init /\ [][NextSequential]_vars

\* the messages of SpecConcurrent: both to the same key
SameKeyPayloads == { data \in PrivatePayloads : data.chatId = PrivSorted }

NextConcurrent ==
  \/ ServerListen
  \/ StartupRefreshResolve
  \/ \E c \in Conns : Connect(c)
  \/ \E h \in TwoMessages, c \in Conns, data \in SameKeyPayloads : SendMessage(h, c, data)
  \/ PrivateHandling

SpecConcurrent == Init /\ [][NextConcurrent]_vars

\* ------------------------------------------------------------------------
\* Specification: one message, with the progress the code can count on.  The
\* persistence calls answer; BabelBotService.chat answers or is aborted by its
\* 30 second timer; a join is taken once its promises have settled.  Nothing
\* bounds a translateMessage call: generateContent is awaited with no timer.
\* ------------------------------------------------------------------------

\* a step of the handler that the event loop, the database or the bot
\* service's abort timer brings about
Answered ==
  \/ \E h \in Active : CacheRefreshResolve(h)
  \/ \E h \in Active : TextJoin(h)
  \/ \E h \in Active, ok \in BOOLEAN : SaveResolve(h, ok)
  \/ \E h \in Active, lang \in SeqToSet(AllLangs), ok \in BOOLEAN : RowResolve(h, lang, ok)
  \/ \E h \in Active : TextRowsJoin(h)
  \/ \E h \in Active, ok \in BOOLEAN : BotUserSaveResolve(h, ok)
  \/ \E h \in Active, outcome \in BotOutcomes : BotChatResolve(h, outcome)
  \/ \E h \in Active, ok \in BOOLEAN : BotReplySaveResolve(h, ok)

\* the translation provider answers a request, or fails it
Translated ==
  \E h \in Active, lang \in SeqToSet(AllLangs) : TranslateResolve(h, lang)

NextLive ==
  \/ ServerListen
  \/ StartupRefreshResolve
  \/ \E c \in Conns : Connect(c)
  \/ \E h \in Active, c \in Conns, data \in RoomPayloads : SendMessage(h, c, data)
  \/ Answered
  \/ Translated

SpecLive == Init /\ [][NextLive]_vars /\ WF_vars(Answered)

\* ------------------------------------------------------------------------
\* Vocabulary of the properties
\* ------------------------------------------------------------------------

EmitIdx(h, name) ==
  { i \in DOMAIN log[h] : log[h][i].op = "emit" /\ log[h][i].name = name }

CallIdx(h, name) ==
  { i \in DOMAIN log[h] : log[h][i].op = "call" /\ log[h][i].name = name }

ResultIdx(h, name) ==
  { i \in DOMAIN log[h] : log[h][i].op = "result" /\ log[h][i].name = name }

Started(h) == handlers[h].pc # "idle"
Done(h) == handlers[h].pc = "done"

\* the room key begins with 'babelbot-'
InBotNamespace(chatId) ==
  Len(chatId) >= 2 /\ chatId[1] = "babelbot" /\ chatId[2] = "-"

\* the room key begins with 'private_'
InPrivateNamespace(chatId) ==
  Len(chatId) >= 2 /\ chatId[1] = "private" /\ chatId[2] = "_"

BotHandler(h) == Started(h) /\ InBotNamespace(handlers[h].data.chatId)
OrdinaryHandler(h) == Started(h) /\ ~InBotNamespace(handlers[h].data.chatId)

\* the 'new-message' emits of h that carry the user's own message
UserEmitIdx(h) ==
  { i \in EmitIdx(h, "new-message") :
      log[h][i].arg.payload.sender.id # "babelbot" }

\* the 'new-message' emits of h that carry a bot-attributed message
BotEmitIdx(h) ==
  { i \in EmitIdx(h, "new-message") :
      log[h][i].arg.payload.sender.id = "babelbot" }

\* the ensure step of h failed: createOrGetPrivateChat rejected, or the key
\* has no two user ids
EnsureFailed(h) ==
  \/ \E i \in ResultIdx(h, "createOrGetPrivateChat") : ~log[h][i].arg.ok
  \/ /\ InPrivateNamespace(handlers[h].data.chatId)
     /\ Done(h)
     /\ CallIdx(h, "createOrGetPrivateChat") = {}

\* createOrGetPrivateChat of h rejected
EnsureRejected(h) ==
  \E i \in ResultIdx(h, "createOrGetPrivateChat") : ~log[h][i].arg.ok

\* the message save of h was rejected
SaveFailed(h) == \E i \in ResultIdx(h, "createMessage") : ~log[h][i].arg.ok

\* C1: a message to a room outside the bot namespace causes at most one
\* message save, at most one 'new-message' emit and at most one
\* 'chat-message-received' emit, and once its handling has ended exactly one
\* of each emit, the 'new-message' one addressed to the message's room
C1_OneSaveOneBroadcast ==
  \A h \in HandlerIds :
    OrdinaryHandler(h) =>
      /\ Cardinality(CallIdx(h, "createMessage")) <= 1
      /\ Cardinality(EmitIdx(h, "new-message")) <= 1
      /\ Cardinality(EmitIdx(h, "chat-message-received")) <= 1
      /\ Done(h) =>
           /\ Cardinality(EmitIdx(h, "new-message")) = 1
           /\ Cardinality(EmitIdx(h, "chat-message-received")) = 1
           /\ \A i \in EmitIdx(h, "new-message") :
                /\ log[h][i].arg.scope = "room"
                /\ log[h][i].arg.room = handlers[h].data.chatId
           /\ \A i \in EmitIdx(h, "chat-message-received") :
                log[h][i].arg.scope = "all"

\* C1 witness: an ordinary message has been handled to its end, with a
\* translation that fell back and a message save that was rejected
C1_Witness ==
  \E h \in HandlerIds :
    /\ OrdinaryHandler(h) /\ Done(h)
    /\ handlers[h].failed # {}
    /\ SaveFailed(h)

\* the message save of h succeeded
SaveSucceeded(h) == \E i \in ResultIdx(h, "createMessage") : log[h][i].arg.ok

\* a translation-row save of h was rejected
RowFailed(h) == \E i \in ResultIdx(h, "createMessageTranslation") : ~log[h][i].arg.ok

\* the mapping of a payload a translation request contributes to
MappingFor(payload, call) ==
  IF call.arg.messageId.suffix = "-caption" THEN payload.captionTranslations
  ELSE payload.translations

\* C2: the 'new-message' emit of an ordinary message comes after every
\* translation request of the message has resolved (its language is in the
\* mapping the emit carries, none is pending) and after the message save has
\* been attempted and has resolved
C2_BroadcastAfterJoinAndSave ==
  \A h \in HandlerIds :
    OrdinaryHandler(h) =>
      \A i \in EmitIdx(h, "new-message") :
        /\ handlers[h].pending = {}
        /\ \A k \in CallIdx(h, "translateMessage") :
             /\ k < i
             /\ log[h][k].arg.targetLanguage \in
                  DOMAIN MappingFor(log[h][i].arg.payload, log[h][k])
        /\ \E j \in CallIdx(h, "createMessage") : j < i
        /\ \E r \in ResultIdx(h, "createMessage") : r < i

\* C2 witness: a message to a private room whose key names no second user
\* was emitted although no message save was ever attempted
C2_Witness ==
  \E h \in HandlerIds :
    /\ OrdinaryHandler(h) /\ Done(h)
    /\ handlers[h].data.chatId = PrivBad
    /\ EmitIdx(h, "new-message") # {}
    /\ CallIdx(h, "createMessage") = {}

\* C3: every 'new-message' emit of the user's own message, whose effective
\* text is not empty, carries a translations mapping that is not empty and
\* maps the origin language to the effective text
C3_OriginalInTranslations ==
  \A h \in HandlerIds :
    Started(h) =>
      \A i \in UserEmitIdx(h) :
        LET payload == log[h][i].arg.payload
            text == EffectiveText(handlers[h].data)
        IN Truthy(text) =>
             /\ DOMAIN payload.translations # {}
             /\ payload.originalLanguage \in DOMAIN payload.translations
             /\ payload.translations[payload.originalLanguage] = text

\* C3 witness: the user's own message was emitted to a bot room with a text
\* that is not empty and a translations mapping that is empty
C3_Witness ==
  \E h \in HandlerIds :
    /\ BotHandler(h)
    /\ Truthy(EffectiveText(handlers[h].data))
    /\ \E i \in UserEmitIdx(h) : DOMAIN log[h][i].arg.payload.translations = {}

\* C4: in the mapping an ordinary message is broadcast with, every target
\* language other than the sender's is present; one whose translation failed
\* maps to the effective text, and every other one maps to its translation
C4_FallbackKeepsLanguage ==
  \A h \in HandlerIds :
    OrdinaryHandler(h) =>
      \A i \in EmitIdx(h, "new-message") :
        LET H == handlers[h]
            payload == log[h][i].arg.payload
            text == EffectiveText(H.data)
        IN \A lang \in SeqToSet(H.targetLanguages) \ { H.senderLanguage } :
             /\ lang \in DOMAIN payload.translations
             /\ << "text", lang >> \in H.failed => payload.translations[lang] = text
             /\ << "text", lang >> \notin H.failed =>
                  payload.translations[lang] = Trim(GeminiText(text, lang))

\* C4 witness: an ordinary message was broadcast after one of its translations
\* failed and another succeeded
C4_Witness ==
  \E h \in HandlerIds :
    /\ OrdinaryHandler(h) /\ Done(h)
    /\ \E l1, l2 \in SeqToSet(handlers[h].targetLanguages) \ { handlers[h].senderLanguage } :
         /\ << "text", l1 >> \in handlers[h].failed
         /\ << "text", l2 >> \notin handlers[h].failed

\* C5: an ordinary message whose handling has ended was emitted once to its
\* room and once to everyone, also when its save or a translation-row save
\* was rejected; the emits carry the local id and the timestamp taken at the
\* start when the save was rejected, and the row's id and created_at when it
\* succeeded
C5_BroadcastDespitePersistenceFailure ==
  \A h \in HandlerIds :
    (OrdinaryHandler(h) /\ Done(h)) =>
      LET H == handlers[h]
          emits == EmitIdx(h, "new-message") \cup EmitIdx(h, "chat-message-received")
      IN /\ (SaveFailed(h) \/ RowFailed(h)) =>
              /\ Cardinality(EmitIdx(h, "new-message")) = 1
              /\ Cardinality(EmitIdx(h, "chat-message-received")) = 1
         /\ \A i \in emits :
              LET payload == log[h][i].arg.payload
              IN /\ SaveFailed(h) =>
                      /\ payload.id.src = "local"
                      /\ payload.id = H.messageId
                      /\ payload.createdAt = H.messageTimestamp
                 /\ SaveSucceeded(h) =>
                      /\ \E r \in ResultIdx(h, "createMessage") : payload.id = log[h][r].arg.id
                      /\ payload.id.src = "db"
                      /\ payload.createdAt.fmt = "db"
                      /\ payload.createdAt.t = H.messageTimestamp.t

\* C5 witness: an ordinary message was saved, one of its translation rows was
\* rejected, and its handling has ended
C5_Witness ==
  \E h \in HandlerIds :
    OrdinaryHandler(h) /\ Done(h) /\ SaveSucceeded(h) /\ RowFailed(h)

\* C6: when createOrGetPrivateChat rejects for a private-room message, the message is
\* not saved and nothing is emitted for it; an ordinary message whose ensure
\* step did not fail is emitted
C6_EnsureFailureAborts ==
  \A h \in HandlerIds :
    OrdinaryHandler(h) =>
      /\ EnsureRejected(h) =>
           /\ CallIdx(h, "createMessage") = {}
           /\ EmitIdx(h, "new-message") = {}
           /\ EmitIdx(h, "chat-message-received") = {}
      /\ (Done(h) /\ ~EnsureFailed(h)) => EmitIdx(h, "new-message") # {}

\* C6 witness: createOrGetPrivateChat rejected and the message was emitted to
\* the room and to everyone all the same
C6_Witness ==
  \E h \in HandlerIds :
    /\ OrdinaryHandler(h) /\ Done(h)
    /\ EnsureRejected(h)
    /\ EmitIdx(h, "new-message") # {}
    /\ EmitIdx(h, "chat-message-received") # {}

\* C7: once handling has ended, the user's own message has been emitted to its
\* room, in bot rooms too, unless the ensure step failed
C7_UserMessageAlwaysBroadcast ==
  \A h \in HandlerIds :
    (Done(h) /\ ~EnsureFailed(h)) =>
      \E i \in UserEmitIdx(h) :
        /\ log[h][i].arg.room = handlers[h].data.chatId
        /\ log[h][i].arg.payload.sender.id = handlers[h].userId

\* C7 witness: the save of the user's message to a bot room was rejected and
\* the handling ended without an emit of the user's message
C7_Witness ==
  \E h \in HandlerIds :
    /\ BotHandler(h) /\ Done(h)
    /\ SaveFailed(h)
    /\ UserEmitIdx(h) = {}

\* C8: a message to a bot room is followed by exactly two 'new-message' emits
\* to that room: the user's message, emitted before the bot service is called,
\* then one message of sender 'babelbot'
C8_BotTwoBroadcastsInOrder ==
  \A h \in HandlerIds :
    (BotHandler(h) /\ Done(h)) =>
      /\ Cardinality(EmitIdx(h, "new-message")) = 2
      /\ \A i \in EmitIdx(h, "new-message") : log[h][i].arg.room = handlers[h].data.chatId
      /\ \E i \in UserEmitIdx(h), j \in BotEmitIdx(h) :
           /\ i < j
           /\ \A c \in CallIdx(h, "babelBotService.chat") : i < c

\* C8 witness: a message to a bot room was handled to its end with a single
\* 'new-message' emit, the bot-attributed one
C8_Witness ==
  \E h \in HandlerIds :
    /\ BotHandler(h) /\ Done(h)
    /\ Cardinality(EmitIdx(h, "new-message")) = 1
    /\ Cardinality(BotEmitIdx(h)) = 1

\* the createMessage calls of h for a bot-attributed message
BotSaveIdx(h) ==
  { i \in CallIdx(h, "createMessage") : log[h][i].arg.sender_id = "babelbot" }

\* C9: when the bot service call fails the one bot-attributed emit is the
\* apology and no reply is saved; when it succeeds, the reply is emitted
\* exactly once by the end of handling, saved or not, and never the apology
C9_ApologyOrReply ==
  \A h \in HandlerIds :
    BotHandler(h) =>
      \A r \in ResultIdx(h, "babelBotService.chat") :
        LET failed == log[h][r].arg.outcome # "ok"
            reply == BotReply(BotChatMessage(handlers[h].data))
        IN /\ Cardinality(BotEmitIdx(h)) <= 1
           /\ failed =>
                /\ Cardinality(BotEmitIdx(h)) = 1
                /\ \A i \in BotEmitIdx(h) : log[h][i].arg.payload.content = ApologyText
                /\ BotSaveIdx(h) = {}
           /\ ~failed =>
                /\ \A i \in BotEmitIdx(h) : log[h][i].arg.payload.content = reply
                /\ Done(h) => Cardinality(BotEmitIdx(h)) = 1
                /\ Cardinality(BotSaveIdx(h)) = 1

\* C9 witness: the bot service timed out and the apology was emitted
C9_Witness ==
  \E h \in HandlerIds :
    /\ BotHandler(h) /\ Done(h)
    /\ \E r \in ResultIdx(h, "babelBotService.chat") : log[h][r].arg.outcome = "timeout"
    /\ \E i \in BotEmitIdx(h) : log[h][i].arg.payload.content = ApologyText

\* the calls a bot-room message must never make
TranslationPathCalls ==
  { "getTargetLanguages", "getActiveUsersLanguages", "translateMessage",
    "createOrGetPrivateChat", "INSERT INTO chats", "createMessageTranslation" }

\* C10: a step of the handling of a bot-room message leaves the cached set and
\* its timestamp as they were, and the handling calls neither
\* getTargetLanguages, nor a translation, nor the ensure step, nor a
\* translation-row save
C10_BotPathLeavesCacheAlone ==
  [][ \A h \in HandlerIds :
        (InBotNamespace(handlers'[h].data.chatId) /\ log'[h] # log[h]) =>
          /\ cachedTargetLanguages' = cachedTargetLanguages
          /\ lastLanguageCacheUpdate' = lastLanguageCacheUpdate
          /\ \A i \in DOMAIN log'[h] :
               log'[h][i].op = "call" => log'[h][i].name \notin TranslationPathCalls ]_vars

\* C10 witness: a bot-room message was handled to its end while the cache was
\* due for a refresh
C10_Witness ==
  \E h \in HandlerIds :
    /\ BotHandler(h) /\ Done(h)
    /\ now - lastLanguageCacheUpdate > LANGUAGE_CACHE_TTL
    /\ handlers[h].messageTimestamp.t - lastLanguageCacheUpdate > LANGUAGE_CACHE_TTL

\* C11: a socket that has disconnected is in no room, and every emit to a room
\* is delivered only to sockets that are connected and in that room when it
\* is emitted, whenever the handling of its message began
C11_DisconnectedSocketGetsNothing ==
  /\ [](\A c \in Conns \ connected : rooms[c] = {})
  /\ [][ \A h \in HandlerIds :
           \A i \in (Len(log[h]) + 1)..Len(log'[h]) :
             (log'[h][i].op = "emit" /\ log'[h][i].arg.scope = "room") =>
               \A c \in log'[h][i].arg.to :
                 c \in connected /\ log'[h][i].arg.room \in rooms[c] ]_vars

\* C11 witness: of two emits to one room the first reached a socket that has
\* disconnected since, and the second reached only another socket
C11_Witness ==
  \E h \in HandlerIds, c \in Conns \ connected :
    \E i, j \in EmitIdx(h, "new-message") :
      /\ i < j
      /\ c \in log[h][i].arg.to
      /\ c \notin log[h][j].arg.to
      /\ log[h][j].arg.to # {}

\* C12: a join-chat for a room the socket is in already, and a leave-chat for a
\* room it is not in, leave every socket's rooms as they are; a join adds
\* exactly the room and a leave removes exactly the room
C12_JoinLeaveIdempotent ==
  [][ \A c \in Conns, chatId \in JoinRooms :
        /\ (JoinChat(c, chatId) /\ chatId \in rooms[c]) => rooms' = rooms
        /\ (LeaveChat(c, chatId) /\ chatId \notin rooms[c]) => rooms' = rooms
        /\ JoinChat(c, chatId) =>
             { d \in Conns : chatId \in rooms'[d] } = { d \in Conns : chatId \in rooms[d] } \cup { c }
        /\ LeaveChat(c, chatId) =>
             { d \in Conns : chatId \in rooms'[d] } = { d \in Conns : chatId \in rooms[d] } \ { c } ]_vars

\* C12 witness: a message was delivered to a socket that is in one of the rooms
\* and not in the other, so that a second join and a leave of a room never
\* joined can both be received
C12_Witness ==
  \E c \in connected, h \in HandlerIds :
    /\ RoomOrdinary \in rooms[c]
    /\ BotRoom \notin rooms[c]
    /\ \E i \in EmitIdx(h, "new-message") :
         log[h][i].arg.room = RoomOrdinary /\ c \in log[h][i].arg.to

\* C20: the handling of a message whose sender has disconnected has ended as
\* any other: the save was attempted, an ordinary message was emitted once to
\* its room and once to everyone, and in a bot room the bot-attributed message
\* was emitted once and the user's message unless its save was rejected
C20_DisconnectDoesNotCancel ==
  \A h \in HandlerIds :
    (Done(h) /\ handlers[h].conn \notin connected) =>
      /\ CallIdx(h, "createMessage") # {}
      /\ ResultIdx(h, "createMessage") # {}
      /\ \A i \in EmitIdx(h, "new-message") : log[h][i].arg.room = handlers[h].data.chatId
      /\ OrdinaryHandler(h) =>
           /\ Cardinality(EmitIdx(h, "new-message")) = 1
           /\ Cardinality(EmitIdx(h, "chat-message-received")) = 1
           /\ \A i \in EmitIdx(h, "new-message") :
                SaveSucceeded(h) => log[h][i].arg.payload.id.src = "db"
      /\ BotHandler(h) =>
           /\ Cardinality(BotEmitIdx(h)) = 1
           /\ Cardinality(UserEmitIdx(h)) <= 1
           /\ UserEmitIdx(h) = {} => SaveFailed(h)

\* C20 witness: the sender was gone when its message was emitted to everyone,
\* the message was saved, and the room emit reached a socket still in the room
C20_Witness ==
  \E h \in HandlerIds :
    /\ OrdinaryHandler(h) /\ Done(h) /\ SaveSucceeded(h)
    /\ \E i \in EmitIdx(h, "chat-message-received") :
         handlers[h].conn \notin log[h][i].arg.to
    /\ \E j \in EmitIdx(h, "new-message") : log[h][j].arg.to # {}

\* a list of languages with at least one entry, with 'en' among them, and with
\* no entry twice
WellFormedLanguages(s) ==
  /\ Len(s) > 0
  /\ Includes(s, "en")
  /\ \A i, j \in 1..Len(s) : i # j => s[i] # s[j]

\* getTargetLanguages() has returned to the handler
GotTargetLanguages(h) ==
  OrdinaryHandler(h) /\ handlers[h].pc # "gtl"

\* C13: the cached target languages are always a non-empty list that contains
\* 'en' and has no duplicates, and so is every list getTargetLanguages()
\* has returned
C13_CacheAlwaysWellFormed ==
  /\ WellFormedLanguages(cachedTargetLanguages)
  /\ \A h \in HandlerIds :
       GotTargetLanguages(h) => WellFormedLanguages(handlers[h].targetLanguages)

\* C13 witness: a refresh whose query returned no row has succeeded, and a
\* handler was given the resulting list
C13_Witness ==
  /\ lastLanguageCacheUpdate > 0
  /\ cachedTargetLanguages = << "en" >>
  /\ \E h \in HandlerIds :
       GotTargetLanguages(h) /\ handlers[h].targetLanguages = << "en" >>

\* the refresh query of h's getTargetLanguages() call rejects in this step
RefreshFailsNow(h) ==
  /\ handlers[h].pc = "gtl"
  /\ handlers'[h].pc # "gtl"
  /\ log'[h][Len(log[h]) + 1] = ResultEv("getActiveUsersLanguages", [ ok |-> FALSE ])

\* C14: when the refresh query of a getTargetLanguages() call rejects, the
\* handler goes on to the translations with the list cached before the call,
\* the cached list and the time of the last refresh are left as they were,
\* and the cache is still expired for the next call
C14_FailedRefreshKeepsCache ==
  [][ \A h \in HandlerIds :
        RefreshFailsNow(h) =>
          /\ cachedTargetLanguages' = cachedTargetLanguages
          /\ lastLanguageCacheUpdate' = lastLanguageCacheUpdate
          /\ handlers'[h].pc = "translating"
          /\ handlers'[h].targetLanguages = cachedTargetLanguages
          /\ handlers[h].gtlNow - lastLanguageCacheUpdate' > LANGUAGE_CACHE_TTL ]_vars

\* C14 witness: the list of an earlier successful refresh was returned by a
\* call whose refresh query rejected
C14_Witness ==
  \E h \in HandlerIds :
    /\ \E r \in ResultIdx(h, "getActiveUsersLanguages") : ~log[h][r].arg.ok
    /\ lastLanguageCacheUpdate > 0
    /\ Len(cachedTargetLanguages) > 1
    /\ handlers[h].targetLanguages = cachedTargetLanguages

\* h has called getTargetLanguages() and waits for its refresh query
AwaitingRefresh(h) ==
  Cardinality(CallIdx(h, "getActiveUsersLanguages"))
    > Cardinality(ResultIdx(h, "getActiveUsersLanguages"))

\* C15: no handler ever waits for the refresh query of the cache:
\* getTargetLanguages() returns the cached list without waiting
C15_GetTargetLanguagesNeverWaits ==
  \A h \in HandlerIds : ~AwaitingRefresh(h)

\* C15 witness: a handler that has emitted nothing yet waits for the refresh
\* query while a stale list is cached
C15_Witness ==
  \E h \in HandlerIds :
    /\ AwaitingRefresh(h)
    /\ handlers[h].pc = "gtl"
    /\ log[h][Len(log[h])] = CallEv("getActiveUsersLanguages", <<>>)
    /\ Len(cachedTargetLanguages) > 1

\* the INSERT INTO chats statements h has issued
InsertIdx(h) == CallIdx(h, "INSERT INTO chats")

\* createOrGetPrivateChat of h returned a row
EnsureSucceeded(h) ==
  \E r \in ResultIdx(h, "createOrGetPrivateChat") : log[h][r].arg.ok

\* C16: of two messages to the private room of one pair of users, handled one
\* after the other: a handler inserts the room at most once, and before it
\* calls createMessage; the first message, when its ensure step succeeds,
\* inserts the room exactly once and the row is there; the second then
\* inserts nothing
C16_OneRoomCreationBeforeSave ==
  /\ \A h \in HandlerIds :
       /\ Cardinality(InsertIdx(h)) <= 1
       /\ \A i \in InsertIdx(h), j \in CallIdx(h, "createMessage") :
            /\ i < j
            /\ log[h][i].arg.id \in chats
            /\ \E r \in ResultIdx(h, "createOrGetPrivateChat") : i < r /\ r < j
  /\ EnsureSucceeded(1) =>
       /\ Cardinality(InsertIdx(1)) = 1
       /\ handlers[1].cgChatId \in chats
  /\ (EnsureSucceeded(1) /\ Started(2)) => InsertIdx(2) = {}

\* C16 witness: two messages to the same key were handled one after the other
\* and both were saved
C16_Witness ==
  /\ Done(1) /\ Done(2)
  /\ handlers[1].data.chatId = handlers[2].data.chatId
  /\ EnsureSucceeded(1) /\ EnsureSucceeded(2)
  /\ SaveSucceeded(1) /\ SaveSucceeded(2)
  /\ InsertIdx(1) # {} /\ InsertIdx(2) = {}

\* C17: of two messages to one private room key handled at the same time, at
\* most one INSERT INTO chats is issued
C17_AtMostOneInsertUnderConcurrency ==
  Cardinality(InsertIdx(1)) + Cardinality(InsertIdx(2)) <= 1

\* C17 witness: both handlers issued the INSERT; one ensure step succeeded, the
\* other was rejected, and its message was emitted without a save
C17_Witness ==
  \E g, h \in HandlerIds :
    /\ g # h
    /\ InsertIdx(g) # {} /\ InsertIdx(h) # {}
    /\ EnsureSucceeded(g)
    /\ EnsureRejected(h) /\ Done(h)
    /\ handlers[h].cgChatId \in chats
    /\ CallIdx(h, "createMessage") = {}
    /\ EmitIdx(h, "new-message") # {}

\* C18: createOrGetPrivateChat for u1 and u2, in either order of its
\* arguments, checks and inserts the key private_u1_u2 and no other; once a
\* call has succeeded there is exactly that row, and two calls that succeed
\* one after the other issue one INSERT between them
C18_SortedKeyOneRecord ==
  /\ chats \subseteq { PrivSorted }
  /\ \A h \in HandlerIds :
       /\ \A i \in InsertIdx(h) : log[h][i].arg.id = PrivSorted
       /\ CallIdx(h, "createOrGetPrivateChat") # {} => handlers[h].cgChatId = PrivSorted
       /\ EnsureSucceeded(h) => chats = { PrivSorted }
  /\ (EnsureSucceeded(1) /\ EnsureSucceeded(2)) =>
       Cardinality(InsertIdx(1)) + Cardinality(InsertIdx(2)) = 1

\* C18 witness: createOrGetPrivateChat has succeeded twice, with its arguments
\* in one order and in the other
C18_Witness ==
  /\ EnsureSucceeded(1) /\ EnsureSucceeded(2)
  /\ handlers[1].cgUsers # handlers[2].cgUsers
  /\ handlers[1].cgChatId = handlers[2].cgChatId
  /\ chats = { PrivSorted }

\* C19: every message whose handling has started is eventually handled to its
\* end, with a 'new-message' emit
C19_HandlingReachesBroadcast ==
  \A h \in HandlerIds :
    [](Started(h) => <>(Done(h) /\ EmitIdx(h, "new-message") # {}))

\* C19 witness: a handler that has emitted nothing waits for translateMessage
\* calls that no timer bounds
C19_Witness ==
  \E h \in HandlerIds :
    /\ handlers[h].pc = "translating"
    /\ handlers[h].pending # {}
    /\ EmitIdx(h, "new-message") = {}

\* ------------------------------------------------------------------------
\* Specification: one message with a caption, from a client that may connect
\* while the getTargetLanguages() call of the listen callback still waits for
\* its query, so that the cache can be replaced while the message is handled
\* ------------------------------------------------------------------------

\* io.on('connection') while the start-up refresh is in flight: the server
\* accepts connections as soon as it listens
ConnectEarly(c) ==
  /\ startup.pc = "refreshing"
  /\ sent = 0
  /\ c \notin connected
  /\ connected' = connected \cup { c }
  /\ rooms' = [ rooms EXCEPT ![c] = {} ]
  /\ UNCHANGED << clockVars, cacheVars, dbVars, startup, handlers, log, sent >>

\* the message of this specification: an image with a caption, to an ordinary room
OverlapPayloads ==
  { [ chatId |-> RoomOrdinary, content |-> Hello, transcription |-> Undefined,
      caption |-> Cap, contentType |-> "image" ] }

NextOverlap ==
  \/ ServerListen
  \/ StartupRefreshResolve
  \/ \E c \in Conns : Connect(c)
  \/ \E c \in Conns : ConnectEarly(c)
  \/ \E h \in Active, c \in Conns, data \in OverlapPayloads : SendMessage(h, c, data)
  \/ \E h \in Active : CacheRefreshResolve(h)
  \/ \E h \in Active, lang \in SeqToSet(AllLangs) : TranslateResolve(h, lang)
  \/ \E h \in Active : TextJoin(h)
  \/ \E h \in Active, lang \in SeqToSet(AllLangs) : CaptionResolve(h, lang)
  \/ \E h \in Active : CaptionJoin(h)
  \/ \E h \in Active, ok \in BOOLEAN : SaveResolve(h, ok)
  \/ \E h \in Active, lang \in SeqToSet(AllLangs), ok \in BOOLEAN : RowResolve(h, lang, ok)
  \/ \E h \in Active : TextRowsJoin(h)
  \/ \E h \in Active : CaptionRowsJoin(h)

SpecOverlap == Init /\ [][NextOverlap]_vars

\* the translation requests of h for the text, and for the caption
TextCalls(h) ==
  { i \in CallIdx(h, "translateMessage") : log[h][i].arg.messageId.suffix = "" }

CaptionCalls(h) ==
  { i \in CallIdx(h, "translateMessage") : log[h][i].arg.messageId.suffix = "-caption" }

\* the translation-row saves of h for the text, and for the caption
TextRowCalls(h) ==
  { i \in CallIdx(h, "createMessageTranslation") : log[h][i].arg.message_id.suffix = "" }

CaptionRowCalls(h) ==
  { i \in CallIdx(h, "createMessageTranslation") :
      log[h][i].arg.message_id.suffix = "-caption" }

\* the languages the requests idx of h ask for, and the rows idx of h are for
RequestLanguages(h, idx) == { log[h][i].arg.targetLanguage : i \in idx }
RowLanguagesOf(h, idx) == { log[h][i].arg.target_language : i \in idx }

\* C21: a message reads the target languages once; whatever happens to the
\* cache afterwards, the list it was given stays as it is, and its text
\* requests, its caption requests, its translation rows, its caption rows and
\* the mappings it is emitted with are all for exactly that list's languages
C21_OneLanguageSetPerMessage ==
  /\ [](\A h \in HandlerIds :
          GotTargetLanguages(h) =>
            LET H == handlers[h]
                others == SeqToSet(H.targetLanguages) \ { H.senderLanguage }
            IN /\ Cardinality(CallIdx(h, "getTargetLanguages")) = 1
               /\ RequestLanguages(h, TextCalls(h)) = others
               /\ Cardinality(TextCalls(h)) = Cardinality(others)
               /\ H.pc \notin { "translating" } /\ HasCaption(H.data) =>
                    /\ RequestLanguages(h, CaptionCalls(h)) = others
                    /\ Cardinality(CaptionCalls(h)) = Cardinality(others)
               /\ SaveSucceeded(h) =>
                    /\ RowLanguagesOf(h, TextRowCalls(h)) = others
                    /\ RowLanguagesOf(h, CaptionRowCalls(h)) \subseteq others
                    /\ (Done(h) /\ ~RowFailed(h) /\ HasCaption(H.data)) =>
                         RowLanguagesOf(h, CaptionRowCalls(h)) = others
               /\ \A i \in EmitIdx(h, "new-message") \cup EmitIdx(h, "chat-message-received") :
                    LET payload == log[h][i].arg.payload
                    IN /\ DOMAIN payload.translations = others \cup { H.senderLanguage }
                       /\ payload.hasCaptionTranslations =>
                            DOMAIN payload.captionTranslations = others \cup { H.senderLanguage })
  /\ [][ \A h \in HandlerIds :
           GotTargetLanguages(h) => handlers'[h].targetLanguages = handlers[h].targetLanguages ]_vars

\* C21 witness: a message with a caption was handled to its end and saved with
\* its rows, and the cache was replaced by another list after the message had
\* read it
C21_Witness ==
  \E h \in HandlerIds :
    /\ Done(h) /\ SaveSucceeded(h) /\ ~RowFailed(h)
    /\ CaptionCalls(h) # {} /\ CaptionRowCalls(h) # {}
    /\ SeqToSet(cachedTargetLanguages) # SeqToSet(handlers[h].targetLanguages)
    /\ lastLanguageCacheUpdate > 0

\* ------------------------------------------------------------------------
\* Specification: one message to an ordinary, a bot or a private room, with
\* clients that join and leave the three rooms at any moment
\* ------------------------------------------------------------------------

DeliveryRooms == { RoomOrdinary, BotRoom, PrivSorted }

\* the messages of this specification: a text to each of the rooms
DeliveryPayloads ==
  { [ chatId |-> c, content |-> Hello, transcription |-> Undefined,
      caption |-> Undefined, contentType |-> "text" ] : c \in DeliveryRooms }

NextDelivery ==
  \/ ServerListen
  \/ StartupRefreshResolve
  \/ \E c \in Conns : Connect(c)
  \/ \E c \in Conns, chatId \in DeliveryRooms : JoinChat(c, chatId)
  \/ \E c \in Conns, chatId \in DeliveryRooms : LeaveChat(c, chatId)
  \/ \E h \in Active, c \in Conns, data \in DeliveryPayloads : SendMessage(h, c, data)
  \/ \E h \in Active : CacheRefreshResolve(h)
  \/ \E h \in Active, lang \in SeqToSet(AllLangs) : TranslateResolve(h, lang)
  \/ \E h \in Active : TextJoin(h)
  \/ \E h \in Active, ok \in BOOLEAN : CheckChatResolve(h, ok)
  \/ \E h \in Active, ok \in BOOLEAN : InsertChatResolve(h, ok)
  \/ \E h \in Active, ok \in BOOLEAN : InsertParticipantResolve(h, ok)
  \/ \E h \in Active, ok \in BOOLEAN : SaveResolve(h, ok)
  \/ \E h \in Active, lang \in SeqToSet(AllLangs), ok \in BOOLEAN : RowResolve(h, lang, ok)
  \/ \E h \in Active : TextRowsJoin(h)
  \/ \E h \in Active, ok \in BOOLEAN : BotUserSaveResolve(h, ok)
  \/ \E h \in Active, outcome \in BotOutcomes : BotChatResolve(h, outcome)
  \/ \E h \in Active, ok \in BOOLEAN : BotReplySaveResolve(h, ok)

SpecDelivery == Init /\ [][NextDelivery]_vars

\* C22: every 'new-message' emit goes to the room key of its message and
\* reaches exactly the sockets that are connected and in that room when it is
\* emitted; it is followed at once by a 'chat-message-received' emit of the
\* same payload that reaches exactly the connected sockets, in or out of the
\* room; this in ordinary, private and bot rooms
C22_RoomAndGlobalDelivery ==
  [][ \A h \in HandlerIds :
        \A i \in (Len(log[h]) + 1)..Len(log'[h]) :
          LET e == log'[h][i]
          IN /\ (e.op = "emit" /\ e.name = "new-message") =>
                  /\ e.arg.scope = "room"
                  /\ e.arg.room = handlers'[h].data.chatId
                  /\ e.arg.to = { c \in connected : e.arg.room \in rooms[c] }
                  /\ i < Len(log'[h])
                  /\ log'[h][i + 1].op = "emit"
                  /\ log'[h][i + 1].name = "chat-message-received"
                  /\ log'[h][i + 1].arg.payload = e.arg.payload
             /\ (e.op = "emit" /\ e.name = "chat-message-received") =>
                  /\ e.arg.scope = "all"
                  /\ e.arg.to = connected
             /\ e.op = "emit" => e.name \in { "new-message", "chat-message-received" } ]_vars

\* C22 witness: a message to a private room was emitted to the room, where it
\* reached a socket other than the sender's and not the sender's, which is not
\* in the room, and to everyone, where it reached both
C22_Witness ==
  \E h \in HandlerIds :
    /\ Done(h)
    /\ handlers[h].data.chatId = PrivSorted
    /\ \E i \in EmitIdx(h, "new-message") :
         /\ log[h][i].arg.to = Conns \ { handlers[h].conn }
         /\ log[h][i + 1].arg.to = Conns

\* C23: once getTargetLanguages() has returned T to the handler of a message of
\* origin language L outside the bot namespace, there is exactly one text
\* translation request for each language of T other than L and none for L,
\* each for the effective text; the requests are all issued in one step of the
\* handler, before the first of them is awaited; and the translations mapping
\* of every emit has exactly the languages of T and L as its keys
C23_OneRequestPerOtherLanguage ==
  /\ [](\A h \in HandlerIds :
          GotTargetLanguages(h) =>
            LET H == handlers[h]
                L == H.senderLanguage
                others == SeqToSet(H.targetLanguages) \ { L }
            IN /\ \A lang \in others :
                    Cardinality({ i \in TextCalls(h) : log[h][i].arg.targetLanguage = lang }) = 1
               /\ \A i \in TextCalls(h) :
                    /\ log[h][i].arg.targetLanguage \in others
                    /\ log[h][i].arg.targetLanguage # L
                    /\ log[h][i].arg.originalContent = EffectiveText(H.data)
                    /\ log[h][i].arg.originalLanguage = L
               /\ \A i \in EmitIdx(h, "new-message") :
                    DOMAIN log[h][i].arg.payload.translations
                      = SeqToSet(H.targetLanguages) \cup { L })
  /\ [][ \A h \in HandlerIds :
           (OrdinaryHandler(h)' /\ TextCalls(h) # TextCalls(h)') =>
             /\ TextCalls(h) = {}
             /\ handlers'[h].pc = "translating"
             /\ handlers'[h].pending = RequestLanguages(h, TextCalls(h))'
             /\ DOMAIN handlers'[h].results = {} ]_vars

\* C23 witness: a message in Hebrew was emitted after the fetched list was
\* he, fr, en: two requests, for fr and en, and a mapping with three keys
C23_Witness ==
  \E h \in HandlerIds :
    /\ OrdinaryHandler(h) /\ Done(h)
    /\ handlers[h].senderLanguage = "he"
    /\ handlers[h].targetLanguages = << "he", "fr", "en" >>
    /\ RequestLanguages(h, TextCalls(h)) = { "fr", "en" }
    /\ \E i \in EmitIdx(h, "new-message") :
         DOMAIN log[h][i].arg.payload.translations = { "he", "fr", "en" }

\* the language the connection of h declared in its handshake, or 'en'
DeclaredLanguage(h) == OrElse(Handshake[handlers[h].conn].userLanguage, "en")

\* the origin language a message of h must have
ExpectedOrigin(h) ==
  LET detected == detectLanguageFromText(EffectiveText(handlers[h].data))
  IN IF InBotNamespace(handlers[h].data.chatId) /\ detected # "en" THEN detected
     ELSE DeclaredLanguage(h)

DetectAlphabet ==
  { 32, 72, 1423, 1424, 1535, 1536, 1791, 1792, 19968, 40959, 1024, 1279 }

DetectTexts == UNION { [ 1..n -> DetectAlphabet ] : n \in 0..MaxTextLen }

\* the messages of this specification: a text, or no content at all, to a bot room
DetectPayloads ==
  { [ chatId |-> BotRoom, content |-> text, transcription |-> Undefined,
      caption |-> Undefined, contentType |-> "text" ] :
      text \in DetectTexts \cup { Undefined } }

NextDetect ==
  \/ ServerListen
  \/ StartupRefreshResolve
  \/ \E c \in Conns : Connect(c)
  \/ \E h \in Active, c \in Conns, data \in DetectPayloads : SendMessage(h, c, data)

SpecDetect == Init /\ [][NextDetect]_vars

\* the script a code point belongs to
ScriptOf(ch) ==
  IF ch \in 1424..1535 THEN "he"
  ELSE IF ch \in 1536..1791 THEN "ar"
  ELSE IF ch \in 19968..40959 THEN "zh"
  ELSE IF ch \in 1024..1279 THEN "ru"
  ELSE "none"

ScriptPriority == << "he", "ar", "zh", "ru" >>

\* the scripts of a text, and the first of them in the order of priority
ScriptsIn(text) == { ScriptOf(text[i]) : i \in 1..Len(text) } \ { "none" }

FirstScript(present) ==
  ScriptPriority[CHOOSE k \in 1..Len(ScriptPriority) :
                   /\ ScriptPriority[k] \in present
                   /\ \A j \in 1..(k - 1) : ScriptPriority[j] \notin present]

\* what detection must answer for a text
DetectByPriority(text) ==
  IF text = Undefined THEN "en"
  ELSE IF \A i \in 1..Len(text) : text[i] = 32 THEN "en"
  ELSE IF ScriptsIn(text) = {} THEN "en"
  ELSE FirstScript(ScriptsIn(text))

\* C25: detectLanguageFromText answers every text, with 'en' for an absent,
\* empty or blank text and for a text with none of the four scripts, and
\* otherwise with the first script of the order he, ar, zh, ru that has a
\* character in the text, wherever in the text it stands; the language of a
\* bot-room message is that answer, or the declared language when the answer
\* is 'en'
C25_DetectionByPriority ==
  \A h \in HandlerIds :
    BotHandler(h) =>
      LET text == handlers[h].data.content
          answer == detectLanguageFromText(text)
      IN /\ answer \in { "en", "he", "ar", "zh", "ru" }
         /\ answer = DetectByPriority(text)
         /\ handlers[h].babelBotLanguage =
              IF DetectByPriority(text) = "en" THEN DeclaredLanguage(h)
              ELSE DetectByPriority(text)

\* C25 witness: a text with a Cyrillic character before a Hebrew one was taken
\* for Hebrew
C25_Witness ==
  \E h \in HandlerIds :
    /\ BotHandler(h)
    /\ handlers[h].data.content = << 1024, 1424 >>
    /\ handlers[h].babelBotLanguage = "he"
    /\ DeclaredLanguage(h) = "en"

\* the inbound caption is there and has a character that is not a space
CaptionPresent(data) ==
  /\ data.caption # Undefined
  /\ \E i \in 1..Len(data.caption) : data.caption[i] # 32

CallsGetTargetLanguages(h) ==
  CallIdx(h, "getTargetLanguages") = {} /\ CallIdx(h, "getTargetLanguages")' # {}

\* the refresh query of h's call resolves in this step
RefreshSucceedsNow(h) ==
  /\ handlers[h].pc = "gtl"
  /\ handlers'[h].pc # "gtl"
  /\ log'[h][Len(log[h]) + 1] = ResultEv("getActiveUsersLanguages", [ ok |-> TRUE ])

\* list is a query result without its duplicates, followed by 'en' if the
\* result has no 'en'
RefreshedFrom(list, languages) ==
  /\ SeqToSet(list) = SeqToSet(languages) \cup { "en" }
  /\ \A i, j \in 1..Len(list) : i # j => list[i] # list[j]
  /\ \A i \in 1..Len(list) : list[i] # "en" \/ Includes(languages, "en") \/ i = Len(list)

\* C27: a getTargetLanguages() call made when no more than the TTL has passed
\* since lastLanguageCacheUpdate issues no query, returns the cached list at
\* once and leaves the list and the time as they are; a call made later than
\* that, and no other, issues the query; when the query resolves the cached
\* list is the query's result without duplicates and with 'en', and the time
\* of the last refresh is the time read at the start of the call
C27_RefreshOnlyAfterTTL ==
  [][ \A h \in HandlerIds :
        /\ CallsGetTargetLanguages(h) =>
             /\ (now - lastLanguageCacheUpdate <= LANGUAGE_CACHE_TTL) =>
                  /\ CallIdx(h, "getActiveUsersLanguages")' = {}
                  /\ cachedTargetLanguages' = cachedTargetLanguages
                  /\ lastLanguageCacheUpdate' = lastLanguageCacheUpdate
                  /\ handlers'[h].pc = "translating"
                  /\ handlers'[h].targetLanguages = cachedTargetLanguages
             /\ (now - lastLanguageCacheUpdate > LANGUAGE_CACHE_TTL) =>
                  /\ Cardinality(CallIdx(h, "getActiveUsersLanguages")') = 1
                  /\ handlers'[h].pc = "gtl"
                  /\ handlers'[h].gtlNow = now
                  /\ cachedTargetLanguages' = cachedTargetLanguages
                  /\ lastLanguageCacheUpdate' = lastLanguageCacheUpdate
        /\ RefreshSucceedsNow(h) =>
             /\ \E languages \in QueryResults :
                  RefreshedFrom(cachedTargetLanguages', languages)
             /\ lastLanguageCacheUpdate' = handlers[h].messageTimestamp.t
             /\ handlers'[h].targetLanguages = cachedTargetLanguages' ]_vars

\* C27 witness: a call made exactly the TTL after a successful refresh
\* returned the cached list without a query
C27_Witness ==
  \E h \in HandlerIds :
    /\ GotTargetLanguages(h)
    /\ lastLanguageCacheUpdate > 0
    /\ handlers[h].messageTimestamp.t - lastLanguageCacheUpdate = LANGUAGE_CACHE_TTL
    /\ CallIdx(h, "getTargetLanguages") # {}
    /\ CallIdx(h, "getActiveUsersLanguages") = {}
    /\ handlers[h].targetLanguages = cachedTargetLanguages

\* ------------------------------------------------------------------------
\* Specification: two messages to an ordinary room, the second received at
\* any moment of the handling of the first and possibly later on the clock,
\* so that two getTargetLanguages() calls can wait for their queries at once
\* ------------------------------------------------------------------------

\* the messages of this specification: a text to an ordinary room
RacePayloads ==
  { [ chatId |-> RoomOrdinary, content |-> Hello, transcription |-> Undefined,
      caption |-> Undefined, contentType |-> "text" ] }

\* both messages come from the connection that declared no language
NextRace ==
  \/ Tick(TwoMessages)
  \/ ServerListen
  \/ StartupRefreshResolve
  \/ \E c \in Conns : Connect(c)
  \/ \E h \in TwoMessages, c \in { "s2" }, data \in RacePayloads : SendMessage(h, c, data)
  \/ \E h \in TwoMessages : CacheRefreshResolve(h)
  \/ \E h \in TwoMessages, lang \in SeqToSet(AllLangs) : TranslateResolve(h, lang)
  \/ \E h \in TwoMessages : TextJoin(h)
  \/ \E h \in TwoMessages, ok \in BOOLEAN : SaveResolve(h, ok)
  \/ \E h \in TwoMessages, lang \in SeqToSet(AllLangs), ok \in BOOLEAN : RowResolve(h, lang, ok)
  \/ \E h \in TwoMessages : TextRowsJoin(h)

SpecRace == Init /\ [][NextRace]_vars

\* the refresh query of h's getTargetLanguages() call has resolved
Refreshed(h) ==
  \E r \in ResultIdx(h, "getActiveUsersLanguages") : log[h][r].arg.ok

\* C28: with getTargetLanguages() calls of two handlers overlapping, the time
\* of the last refresh never goes back, and once the queries of both calls
\* have resolved the cached list is the one the later call (of the second
\* message) was given
C28_OverlappingRefreshes ==
  /\ []((Refreshed(1) /\ Refreshed(2)) =>
          cachedTargetLanguages = handlers[2].targetLanguages)
  /\ [][ lastLanguageCacheUpdate' >= lastLanguageCacheUpdate ]_vars

\* C28 witness: the call of the second message started later on the clock and
\* its query resolved first; the query of the first call resolved after it,
\* put its own, older result into the cache and set the time of the last
\* refresh back to its own start
C28_Witness ==
  /\ Refreshed(1) /\ Refreshed(2)
  /\ handlers[1].gtlNow < handlers[2].gtlNow
  /\ lastLanguageCacheUpdate = handlers[1].gtlNow
  /\ cachedTargetLanguages = handlers[1].targetLanguages
  /\ cachedTargetLanguages # handlers[2].targetLanguages

\* the id the message save of h returned
SavedIds(h) == { log[h][r].arg.id : r \in { q \in ResultIdx(h, "createMessage") : log[h][q].arg.ok } }

\* C29: for a message outside the bot namespace whose save succeeded, exactly
\* one translation-row save is attempted for each language of the translations
\* mapping the message is emitted with, other than the origin language: under
\* the id the save returned and with the text the mapping has for it; none is
\* attempted for the origin language.  When the save has not succeeded (it was
\* rejected, or the private-room step before it failed) no translation-row
\* save is attempted at all
C29_TranslationRows ==
  \A h \in HandlerIds :
    OrdinaryHandler(h) =>
      LET H == handlers[h]
          mapping == H.messageData.translations
      IN /\ \A i \in EmitIdx(h, "new-message") :
              log[h][i].arg.payload.translations = mapping
         /\ SaveSucceeded(h) =>
              /\ \A lang \in DOMAIN mapping \ { H.senderLanguage } :
                   Cardinality({ i \in TextRowCalls(h) :
                                   log[h][i].arg.target_language = lang }) = 1
              /\ \A i \in TextRowCalls(h) :
                   /\ log[h][i].arg.target_language \in DOMAIN mapping \ { H.senderLanguage }
                   /\ log[h][i].arg.message_id \in SavedIds(h)
                   /\ log[h][i].arg.translated_content
                        = mapping[log[h][i].arg.target_language]
              /\ \A i \in CallIdx(h, "createMessageTranslation") :
                   log[h][i].arg.target_language # H.senderLanguage
         /\ ~SaveSucceeded(h) => CallIdx(h, "createMessageTranslation") = {}

\* C29 witness: a message in Hebrew was saved and emitted with a mapping of
\* three languages, and two translation rows were attempted under its id
C29_Witness ==
  \E h \in HandlerIds :
    /\ OrdinaryHandler(h) /\ Done(h) /\ SaveSucceeded(h)
    /\ handlers[h].senderLanguage = "he"
    /\ RowLanguagesOf(h, TextRowCalls(h)) = { "fr", "en" }
    /\ \A i \in TextRowCalls(h) : log[h][i].arg.message_id = handlers[h].savedId

\* h is inside createOrGetPrivateChat, past its INSERT INTO chats
InsertingParticipants(h) == handlers[h].pc \in { "cg_part1", "cg_part2" }

\* both users of the call of h are recorded as participants of its room
BothParticipants(h) ==
  \A k \in 1..2 : << handlers[h].cgChatId, handlers[h].cgUsers[k] >> \in chat_participants

\* C30: whenever no createOrGetPrivateChat call is between its INSERTs, a
\* private room that exists has both its users as participants, also after a
\* call was rejected part-way; and a call that has returned a room has
\* returned one with both participants
C30_RoomCreationAllOrNothing ==
  \A h \in HandlerIds :
    CallIdx(h, "createOrGetPrivateChat") # {} =>
      /\ (handlers[h].cgChatId \in chats /\ \A g \in HandlerIds : ~InsertingParticipants(g)) =>
           BothParticipants(h)
      /\ EnsureSucceeded(h) => BothParticipants(h)

\* C30 witness: the first call inserted the room and was rejected at a
\* participant INSERT; the call of the second message found the room and
\* returned it, the message was saved, and the room still lacks a participant
C30_Witness ==
  /\ Done(1) /\ EnsureRejected(1) /\ InsertIdx(1) # {}
  /\ handlers[1].cgChatId \in chats
  /\ Done(2) /\ EnsureSucceeded(2) /\ SaveSucceeded(2) /\ InsertIdx(2) = {}
  /\ handlers[2].cgChatId = handlers[1].cgChatId
  /\ ~BothParticipants(2)

\* C31: a message to a room of the private namespace is saved under the id of
\* the room its createOrGetPrivateChat call ensured, and that room exists,
\* also when the key names the two users in the other order
C31_SavedIntoEnsuredRoom ==
  \A h \in HandlerIds :
    (Started(h) /\ InPrivateNamespace(handlers[h].data.chatId)) =>
      \A j \in CallIdx(h, "createMessage") :
        /\ EnsureSucceeded(h)
        /\ log[h][j].arg.chat_id = handlers[h].cgChatId
        /\ log[h][j].arg.chat_id \in chats

\* C31 witness: the room private_u1_u2 was ensured for a message with the key
\* private_u2_u1, and the message was saved under private_u2_u1, a room that
\* does not exist
C31_Witness ==
  \E h \in HandlerIds :
    /\ Done(h) /\ EnsureSucceeded(h) /\ SaveSucceeded(h)
    /\ handlers[h].data.chatId = PrivSwapped
    /\ handlers[h].cgChatId = PrivSorted
    /\ chats = { PrivSorted }
    /\ \E j \in CallIdx(h, "createMessage") : log[h][j].arg.chat_id = PrivSwapped

\* the createMessage calls of h for the user's own message
UserSaveIdx(h) == CallIdx(h, "createMessage") \ BotSaveIdx(h)

\* C32: in a bot room the text given to the bot service is the text language
\* detection was applied to, and the text the user's message is saved with:
\* the transcription when it is there and not blank, else the content
C32_BotGetsEffectiveText ==
  \A h \in HandlerIds :
    BotHandler(h) =>
      \A i \in CallIdx(h, "babelBotService.chat") :
        /\ log[h][i].arg.message = ContentToDetect(handlers[h].data)
        /\ \A j \in UserSaveIdx(h) :
             Truthy(log[h][j].arg.content) => log[h][i].arg.message = log[h][j].arg.content

\* C32 witness: a message with a content and a transcription was saved with
\* its transcription, and the bot service was given its content
C32_Witness ==
  \E h \in HandlerIds :
    /\ BotHandler(h)
    /\ handlers[h].data.content = Hello
    /\ handlers[h].data.transcription = Voice
    /\ \E j \in UserSaveIdx(h) : log[h][j].arg.content = Voice
    /\ \E i \in CallIdx(h, "babelBotService.chat") : log[h][i].arg.message = Hello

\* g and h handle messages of one connection to one room
SameSenderAndRoom(g, h) ==
  /\ Started(g) /\ Started(h)
  /\ handlers[g].conn = handlers[h].conn
  /\ handlers[g].data.chatId = handlers[h].data.chatId

\* C33: of two messages one connection sent to one room, the one sent later
\* is not emitted to the room before the one sent earlier
C33_SenderOrderKept ==
  \A g, h \in HandlerIds :
    (g < h /\ SameSenderAndRoom(g, h)) =>
      (EmitIdx(h, "new-message") # {} => EmitIdx(g, "new-message") # {})

\* C33 witness: the second message of a connection has been saved and emitted
\* while the first, sent before it to the same room, still waits for a
\* translation
C33_Witness ==
  /\ SameSenderAndRoom(1, 2)
  /\ Done(2) /\ SaveSucceeded(2) /\ EmitIdx(2, "new-message") # {}
  /\ handlers[1].pc = "translating" /\ handlers[1].pending # {}
  /\ EmitIdx(1, "new-message") = {}

\* ------------------------------------------------------------------------
\* Specification: as SpecRooms, with a SIGINT received once the server is up.
\* server.close() refuses new connections and waits for the open ones, so
\* the sockets that are connected stay connected until they leave
\* ------------------------------------------------------------------------

\* process.on('SIGINT'): io.sockets.adapter.rooms.clear(); server.close(...)
Sigint ==
  /\ startup.pc = "done"
  /\ startup' = [ startup EXCEPT !.pc = "closing" ]
  /\ rooms' = [ c \in Conns |-> {} ]
  /\ UNCHANGED << clockVars, cacheVars, dbVars, connected, handlers, log, sent >>

NextShutdown ==
  \/ NextRooms
  \/ Sigint

SpecShutdown == Init /\ [][NextShutdown]_vars

\* C34: a socket that is in a room and is still connected after a step is
\* still in the room, unless the step is its own leave-chat for that room;
\* a socket leaves its rooms otherwise only by its own disconnect
C34_OnlyOwnLeaveRemoves ==
  [][ \A c \in Conns :
        \A chatId \in rooms[c] \ rooms'[c] :
          \/ LeaveChat(c, chatId)
          \/ Disconnect(c) ]_vars

\* C34 witness: after a SIGINT a socket is still connected and in no room;
\* the user's message to a bot room had reached it in the room, the bot's
\* message that followed reached it only as the event sent to everyone
C34_Witness ==
  \E h \in HandlerIds, c \in connected :
    /\ startup.pc = "closing"
    /\ rooms[c] = {}
    /\ \E i \in UserEmitIdx(h), j \in BotEmitIdx(h) :
         /\ i < j
         /\ c \in log[h][i].arg.to
         /\ log[h][j].arg.to = {}
         /\ c \in log[h][j + 1].arg.to

\* the save that call j of h asked for has succeeded
SavedBy(h, j) ==
  \E r \in ResultIdx(h, "createMessage") :
    /\ r > j
    /\ log[h][r].arg.ok
    /\ \A k \in CallIdx(h, "createMessage") : ~(j < k /\ k < r)

\* C35: a message that was saved and emitted was saved with the origin
\* language it is emitted with: the user's message in ordinary, private and
\* bot rooms, and the bot's reply
C35_SavedLanguageIsEmittedLanguage ==
  \A h \in HandlerIds :
    Started(h) =>
      /\ \A j \in UserSaveIdx(h), i \in UserEmitIdx(h) :
           SavedBy(h, j) =>
             log[h][j].arg.original_language = log[h][i].arg.payload.originalLanguage
      /\ \A j \in BotSaveIdx(h), i \in BotEmitIdx(h) :
           SavedBy(h, j) =>
             log[h][j].arg.original_language = log[h][i].arg.payload.originalLanguage

\* C35 witness: to a text in Hebrew from a connection that declared no
\* language the bot's reply was saved as 'en' and emitted as 'he'
C35_Witness ==
  \E h \in HandlerIds :
    /\ BotHandler(h) /\ Done(h)
    /\ \E j \in BotSaveIdx(h), i \in BotEmitIdx(h) :
         /\ SavedBy(h, j)
         /\ log[h][j].arg.original_language = "en"
         /\ log[h][i].arg.payload.originalLanguage = "he"
         /\ log[h][i].arg.payload.id.src = "db"

\* C36: a message is handled whether or not its sender is in the room: when
\* its handling has ended the save was attempted (unless the private-room
\* step failed) and the message was emitted; the emit to the room reaches all
\* sockets in the room at that moment, and the sender's socket exactly when
\* it is one of them
C36_SenderNeedNotBeMember ==
  /\ [](\A h \in HandlerIds :
          (Done(h) /\ ~EnsureFailed(h)) =>
            /\ CallIdx(h, "createMessage") # {}
            /\ EmitIdx(h, "new-message") # {}
            /\ EmitIdx(h, "chat-message-received") # {})
  /\ [][ \A h \in HandlerIds :
           \A i \in (Len(log[h]) + 1)..Len(log'[h]) :
             LET e == log'[h][i]
                 sender == handlers'[h].conn
             IN (e.op = "emit" /\ e.name = "new-message") =>
                  /\ \A c \in connected : e.arg.room \in rooms[c] => c \in e.arg.to
                  /\ sender \in e.arg.to <=>
                       (sender \in connected /\ e.arg.room \in rooms[sender]) ]_vars

\* C36 witness: a connection that is in no room sent a message to an ordinary
\* room; the message was saved and emitted to the room, where it reached the
\* other connection and not the sender
C36_Witness ==
  \E h \in HandlerIds :
    /\ OrdinaryHandler(h) /\ Done(h) /\ SaveSucceeded(h)
    /\ handlers[h].data.chatId = RoomOrdinary
    /\ handlers[h].conn \in connected
    /\ rooms[handlers[h].conn] = {}
    /\ \E i \in EmitIdx(h, "new-message") :
         /\ log[h][i].arg.to # {}
         /\ handlers[h].conn \notin log[h][i].arg.to
         /\ handlers[h].conn \in log[h][i + 1].arg.to

====
